---- MODULE Spec2Model ----
(***************************************************************************)
(* Pattern analysis and multi-pass humanization pipeline of cli.js.        *)
(*                                                                         *)
(* Texts are TLA+ strings (sequences of characters); every regular         *)
(* expression of the source is written out as an operator over the         *)
(* characters of the text.  Math.random draws are nondeterministic         *)
(* choices of the actions.  Scores are exact rationals <<num, den>>;       *)
(* sentenceVariety, the only irrational score (it is a square root), is    *)
(* carried as its square.                                                  *)
(***************************************************************************)
EXTENDS Integers, Sequences, FiniteSets, TLC

VARIABLES
    text,        \* the input string of the run
    analysis,    \* the caller's PatternAnalysis of the input, or Undefined
    tone,        \* parameter `tone` of applyHumanization
    strength,    \* parameter `strength` of applyHumanization
    analysisArg, \* parameter `analysis` of applyHumanization
    result,      \* `result` of applyHumanization
    pc,          \* position in the call chain
    pass,        \* `pass` of the loop of applyHumanization
    polished,    \* finalPolish applied to `result` once more
    hits,        \* successful Math.random draws the run has left
    outer,       \* `i` of the loop of processText, 0 outside processText
    optPasses,   \* options.passes of processText, 0 outside processText
    trace        \* the stage functions applied so far, in order

vars == <<text, analysis, tone, strength, analysisArg, result, pc, pass,
          polished, hits, outer, optPasses, trace>>

\* the value undefined where an object is expected
Undefined == [undefined |-> TRUE]

\* the parameters of applyHumanization before the call
NotCalled == ""

\* a parameter bound to an object where a string is expected: it is equal to
\* no string the code compares it with
ObjectArg == "[object Object]"

----------------------------------------------------------------------------
(* Characters and character classes of JavaScript regular expressions.     *)

Char(s, i) == SubSeq(s, i, i)

CharsOf(s) == { Char(s, i) : i \in 1..Len(s) }

LowerLetters == CharsOf("abcdefghijklmnopqrstuvwxyz")
UpperLetters == CharsOf("ABCDEFGHIJKLMNOPQRSTUVWXYZ")

\* \w : [A-Za-z0-9_]
WordChars ==
    LowerLetters \cup UpperLetters \cup CharsOf("0123456789") \cup {"_"}

\* \s : the white space characters the inputs use
SpaceChars == {" ", "\n", "\t"}

\* [.!?]
Terminators == {".", "!", "?"}

\* [.,!?;:]
Punctuation == {".", ",", "!", "?", ";", ":"}

\* toLowerCase and toUpperCase of one character
LowerChar(c) ==
    IF c \in UpperLetters
    THEN Char("abcdefghijklmnopqrstuvwxyz",
              CHOOSE i \in 1..26 : Char("ABCDEFGHIJKLMNOPQRSTUVWXYZ", i) = c)
    ELSE c

UpperChar(c) ==
    IF c \in LowerLetters
    THEN Char("ABCDEFGHIJKLMNOPQRSTUVWXYZ",
              CHOOSE i \in 1..26 : Char("abcdefghijklmnopqrstuvwxyz", i) = c)
    ELSE c

\* the characters a..b of s in lower case
RECURSIVE LowerRange(_, _, _)
LowerRange(s, a, b) ==
    IF a > b THEN ""
    ELSE IF a = b THEN LowerChar(Char(s, a))
    ELSE LET m == (a + b) \div 2
         IN  LowerRange(s, a, m) \o LowerRange(s, m + 1, b)

\* String.prototype.toLowerCase
ToLowerCase(s) == LowerRange(s, 1, Len(s))

\* the elements of S in lo..hi, in increasing order
RECURSIVE SortedSeq(_, _, _)
SortedSeq(S, lo, hi) ==
    IF lo > hi THEN <<>>
    ELSE IF lo = hi THEN (IF lo \in S THEN <<lo>> ELSE <<>>)
    ELSE LET m == (lo + hi) \div 2
         IN  SortedSeq(S, lo, m) \o SortedSeq(S, m + 1, hi)

\* the positions of s where a run of characters outside `set` starts / ends
RunStarts(s, set) ==
    { i \in 1..Len(s) :
        Char(s, i) \notin set /\ (i = 1 \/ Char(s, i - 1) \in set) }

RunEnds(s, set) ==
    { i \in 1..Len(s) :
        Char(s, i) \notin set /\ (i = Len(s) \/ Char(s, i + 1) \in set) }

\* s.charAt(0).toUpperCase() + s.slice(1)
UpperFirst(s) ==
    IF s = "" THEN "" ELSE UpperChar(Char(s, 1)) \o SubSeq(s, 2, Len(s))

\* s.charAt(0).toLowerCase() + s.slice(1)
LowerFirst(s) ==
    IF s = "" THEN "" ELSE LowerChar(Char(s, 1)) \o SubSeq(s, 2, Len(s))

\* String.prototype.trim
Trim(s) ==
    LET kept == { i \in 1..Len(s) : Char(s, i) \notin SpaceChars }
    IN  IF kept = {} THEN ""
        ELSE SubSeq(s, CHOOSE i \in kept : \A k \in kept : i <= k,
                       CHOOSE i \in kept : \A k \in kept : k <= i)

\* the literal `lit` occurs in s at position i
LitAt(s, i, lit) ==
    /\ i >= 1
    /\ i + Len(lit) - 1 <= Len(s)
    /\ SubSeq(s, i, i + Len(lit) - 1) = lit

\* String.prototype.includes
Includes(s, lit) == \E i \in 1..(Len(s) - Len(lit) + 1) : LitAt(s, i, lit)

\* \b between positions i-1 and i (1-based, i in 1..Len(s)+1)
Boundary(s, i) ==
    LET before == i > 1 /\ Char(s, i - 1) \in WordChars
        after  == i <= Len(s) /\ Char(s, i) \in WordChars
    IN  before # after

\* the maximal runs of characters outside seps, in order:
\* s.split(/[seps]+/).filter(x => x.length > 0)
Tokens(s, seps) ==
    LET first == SortedSeq(RunStarts(s, seps), 1, Len(s))
        last  == SortedSeq(RunEnds(s, seps), 1, Len(s))
    IN  [k \in 1..Len(first) |-> SubSeq(s, first[k], last[k])]

\* end of the run of characters of `set` that starts at i (i itself when none)
RECURSIVE SkipChars(_, _, _)
SkipChars(s, i, set) ==
    IF i <= Len(s) /\ Char(s, i) \in set THEN SkipChars(s, i + 1, set) ELSE i

\* The matches of a global regular expression, from left to right and not
\* overlapping: matchEnd[i] is the position after the match that starts at
\* i, or 0 when none starts there.  MatchStarts is the set of their starts.
MatchStarts(s, matchEnd) ==
    LET starts == { j \in 1..Len(s) : matchEnd[j] > j }
        f[i \in 1..(Len(s) + 1)] ==
            LET later == { j \in starts : j >= i }
            IN  IF later = {} THEN {}
                ELSE LET j == CHOOSE m \in later : \A k \in later : m <= k
                     IN  {j} \cup f[matchEnd[j]]
    IN  f[1]

\* s.replace(regex, replacer) for a global regular expression:
\* replacement[i] is the text that replaces the match that starts at i
ReplaceAll(s, matchEnd, replacement) ==
    LET starts == MatchStarts(s, matchEnd)
        f[i \in 1..(Len(s) + 1)] ==
            LET later == { j \in starts : j >= i }
            IN  IF later = {} THEN SubSeq(s, i, Len(s))
                ELSE LET j == CHOOSE m \in later : \A k \in later : m <= k
                         e == matchEnd[j]
                     IN  SubSeq(s, i, j - 1) \o replacement[j] \o f[e]
    IN  f[1]

----------------------------------------------------------------------------
(* Exact arithmetic: a rational is <<num, den>> with den > 0.              *)

RECURSIVE GCD(_, _)
GCD(a, b) == IF b = 0 THEN a ELSE GCD(b, a % b)

Rat(n, d) ==
    LET g == GCD(IF n < 0 THEN -n ELSE n, d)
    IN  IF n = 0 THEN <<0, 1>> ELSE <<n \div g, d \div g>>

Zero == <<0, 1>>
One  == <<1, 1>>

RAdd(a, b) == Rat(a[1] * b[2] + b[1] * a[2], a[2] * b[2])
RSub(a, b) == Rat(a[1] * b[2] - b[1] * a[2], a[2] * b[2])
RMul(a, b) == Rat(a[1] * b[1], a[2] * b[2])
RLt(a, b)  == a[1] * b[2] < b[1] * a[2]
RLe(a, b)  == a[1] * b[2] <= b[1] * a[2]
RMin(a, b) == IF RLt(b, a) THEN b ELSE a

RDiv(a, b) == Rat(a[1] * b[2], a[2] * b[1])     \* b > 0

\* an/ad <= bn/bd for an, bn >= 0 and ad, bd > 0, by comparing the continued
\* fractions (no products, so no overflow)
RECURSIVE FracLe(_, _, _, _)
FracLe(an, ad, bn, bd) ==
    LET qa == an \div ad
        qb == bn \div bd
        ra == an % ad
        rb == bn % bd
    IN  IF qa # qb THEN qa < qb
        ELSE IF ra = 0 THEN TRUE
        ELSE IF rb = 0 THEN FALSE
        ELSE FracLe(bd, rb, ad, ra)

\* a value c + k * sqrt(q) with c, k, q rational and q >= 0
Surd(c, k, q) == [c |-> c, k |-> IF q = Zero THEN Zero ELSE k,
                  q |-> IF k = Zero THEN Zero ELSE q]

\* 0 <= a + k * sqrt(q), decided exactly
SurdSignGe0(a, k, q) ==
    IF k = Zero \/ q = Zero THEN RLe(Zero, a)
    ELSE IF RLt(Zero, k)
         THEN \/ RLe(Zero, a)                           \* sqrt(q) >= -a/k
              \/ LET x == RDiv(RSub(Zero, a), k)         \* x^2 <= q
                 IN  FracLe(x[1] * x[1], x[2] * x[2], q[1], q[2])
         ELSE /\ RLe(Zero, a)                           \* a/-k >= sqrt(q)
              /\ LET x == RDiv(a, RSub(Zero, k))
                 IN  \/ RLe(One, x) /\ RLe(q, One)         \* q <= x^2
                     \/ FracLe(q[1], q[2], x[1] * x[1], x[2] * x[2])

\* v <= r for a surd v and a rational r
SurdLe(v, r) == SurdSignGe0(RSub(r, v.c), RSub(Zero, v.k), v.q)

\* Math.min(v, r) of a surd v and a rational r
SurdMin(v, r) == IF SurdLe(v, r) THEN v ELSE Surd(r, Zero, Zero)

\* the sum of f over the elements of a finite set
RECURSIVE SumOver(_, _)
SumOver(S, f) ==
    IF S = {} THEN 0
    ELSE LET x == CHOOSE x \in S : TRUE IN f[x] + SumOver(S \ {x}, f)

\* the sum of the elements of a sequence of integers
RECURSIVE SumSeq(_)
SumSeq(q) == IF q = <<>> THEN 0 ELSE Head(q) + SumSeq(Tail(q))

Range(q) == { q[i] : i \in 1..Len(q) }

\* q.join(sep) of a sequence of strings
RECURSIVE Join(_, _)
Join(q, sep) ==
    IF Len(q) = 0 THEN ""
    ELSE IF Len(q) = 1 THEN q[1]
    ELSE LET m == Len(q) \div 2
         IN  Join(SubSeq(q, 1, m), sep) \o sep
                 \o Join(SubSeq(q, m + 1, Len(q)), sep)

----------------------------------------------------------------------------
(* analyzeAIPatterns                                                       *)

\* text.split(/[.!?]+/).filter(s => s.trim().length > 0)
Sentences(t) == SelectSeq(Tokens(t, Terminators), LAMBDA s : Trim(s) # "")

\* text.toLowerCase().split(/\s+/).filter(w => w.length > 0)
Words(t) == Tokens(ToLowerCase(t), SpaceChars)

formalWords ==
    { "utilize", "implement", "facilitate", "leverage", "optimize", "strategic",
      "comprehensive", "methodology", "framework", "paradigm", "subsequently",
      "aforementioned", "nonetheless", "heretofore", "wherein", "whereby",
      "notwithstanding", "henceforth", "ascertain", "endeavor", "procure",
      "paramount", "integral", "quintessential", "multifaceted", "substantiate" }

\* words.filter(word => formalWords.includes(word)).length
FormalCount(words) ==
    Cardinality({ i \in 1..Len(words) : words[i] \in formalWords })

\* Math.min((formalCount / words.length) * 5, 1)
FormalityScore(words) == RMin(Rat(5 * FormalCount(words), Len(words)), One)

\* wordFreq.get(w): occurrences of w among the words
Freq(words, w) == Cardinality({ i \in 1..Len(words) : words[i] = w })

\* sum of (freq - 2) * 0.5 over the words longer than 3 used more than
\* twice, divided by words.length (not clamped)
RepetitionScore(words) ==
    LET long   == { w \in Range(words) : Len(w) > 3 /\ Freq(words, w) > 2 }
        excess == [w \in long |-> Freq(words, w) - 2]
    IN  Rat(SumOver(long, excess), 2 * Len(words))

\* number of distinct adjacent word pairs that occur more than once
PhraseRepetition(words) ==
    LET n      == Len(words)
        pairs  == { <<words[i], words[i + 1]>> : i \in 1..(n - 1) }
        occ(p) == Cardinality({ i \in 1..(n - 1) :
                                  <<words[i], words[i + 1]>> = p })
    IN  Cardinality({ p \in pairs : occ(p) > 1 })

\* position after the words of `leads` (a sequence of sets of alternatives),
\* each followed by \s+, matched from i; 0 when they do not match.  The flag
\* i is rendered by matching on the lower-cased text s.
RECURSIVE LeadsEnd(_, _, _)
LeadsEnd(s, i, leads) ==
    IF leads = <<>> THEN i
    ELSE LET cands == { w \in Head(leads) :
                          /\ LitAt(s, i, w)
                          /\ i + Len(w) <= Len(s)
                          /\ Char(s, i + Len(w)) \in SpaceChars }
         IN  IF cands = {} THEN 0
             ELSE LET w == CHOOSE w \in cands : TRUE
                  IN  LeadsEnd(s, SkipChars(s, i + Len(w), SpaceChars),
                               Tail(leads))

\* /\b<leads>\s+\w+<suffix>\b/gi at i of the lower-cased text s: position
\* after the match, or 0.  \w+<suffix>\b is a whole run of word characters,
\* at least one of them before the suffix.
PassiveEnd(s, i, leads, suffix) ==
    IF ~Boundary(s, i) THEN 0
    ELSE LET j == LeadsEnd(s, i, leads)
         IN  IF j = 0 THEN 0
             ELSE LET k == SkipChars(s, j, WordChars)
                  IN  IF k - j >= 3 /\ SubSeq(s, k - 2, k - 1) = suffix
                      THEN k ELSE 0

passivePatterns ==
    << [leads |-> <<{"is", "are", "was", "were", "been", "being"}>>,
        suffix |-> "ed"],
       [leads |-> <<{"is", "are", "was", "were", "been", "being"}>>,
        suffix |-> "en"],
       [leads |-> <<{"can"}, {"be"}>>,     suffix |-> "ed"],
       [leads |-> <<{"will"}, {"be"}>>,    suffix |-> "ed"],
       [leads |-> <<{"has"}, {"been"}>>,   suffix |-> "ed"],
       [leads |-> <<{"have"}, {"been"}>>,  suffix |-> "ed"] >>

\* passivePatterns.forEach(p => passiveCount += (text.match(p) || []).length)
PassiveCount(t) ==
    LET low == ToLowerCase(t)
    IN  SumSeq([n \in 1..Len(passivePatterns) |->
            LET p == passivePatterns[n]
                M(s, i) == PassiveEnd(s, i, p.leads, p.suffix)
            IN  Cardinality(MatchStarts(low, [j \in 1..Len(low) |-> M(low, j)]))])

\* variant: passiveCount over the number of words of the sentences
PassiveScorePerWord(passiveCount, sentences) ==
    LET n == SumSeq([k \in 1..Len(sentences) |->
                        Len(Tokens(sentences[k], SpaceChars))])
    IN  RMin(Rat(passiveCount, IF n > 1 THEN n ELSE 1), One)

\* Math.min(passiveCount / Math.max(sentences.length, 1), 1)
PassiveScore(passiveCount, sentences) ==
    LET m == IF Len(sentences) > 1 THEN Len(sentences) ELSE 1
    IN  RMin(Rat(passiveCount, m), One)

\* sentences.map(s => s.trim().split(/\s+/).length)
SentenceLengths(sentences) ==
    [n \in 1..Len(sentences) |-> Len(Tokens(sentences[n], SpaceChars))]

\* avgLength
AvgLength(sentences) ==
    Rat(SumSeq(SentenceLengths(sentences)), Len(sentences))

\* variant: the mean of len^2, avgLength not subtracted
VarianceAboutZero(sentences) ==
    LET lens == SentenceLengths(sentences)
    IN  Rat(SumSeq([i \in 1..Len(lens) |-> lens[i] * lens[i]]), Len(lens))

\* variance: the mean of (len - avgLength)^2
Variance(sentences) ==
    LET lens == SentenceLengths(sentences)
        n    == Len(lens)
        sum  == SumSeq(lens)
        sq   == SumSeq([i \in 1..n |-> lens[i] * lens[i]])
    IN  Rat(n * sq - sum * sum, n * n)

\* variant: without the Math.min(..., 1)
SentenceVarietyUnclamped(sentences) ==
    LET avgLength == AvgLength(sentences)
        m == IF RLt(avgLength, One) THEN One ELSE avgLength
    IN  RDiv(Variance(sentences), RMul(m, m))

\* The square of sentenceVariety = Math.min(stdDev / Math.max(avgLength, 1), 1):
\* min(variance / max(avgLength, 1)^2, 1).
SentenceVariety(sentences) ==
    LET avgLength == AvgLength(sentences)
        m == IF RLt(avgLength, One) THEN One ELSE avgLength
    IN  RMin(RDiv(Variance(sentences), RMul(m, m)), One)

\* variant: a starter counts from its second use (f > 1)
StarterScoreTwice(sentences) ==
    LET starters == [n \in 1..Len(sentences) |->
                        ToLowerCase(Tokens(sentences[n], SpaceChars)[1])]
        starterRepetition ==
            Cardinality({ w \in Range(starters) : Freq(starters, w) > 1 })
        m == IF Len(sentences) > 1 THEN Len(sentences) ELSE 1
    IN  RMin(Rat(starterRepetition, m), One)

\* Math.min(starterRepetition / Math.max(sentences.length, 1), 1)
\* with starters = sentences.map(s => s.trim().split(/\s+/)[0]?.toLowerCase())
\* and starterRepetition the number of distinct starters used more than twice
StarterScore(sentences) ==
    LET starters == [n \in 1..Len(sentences) |->
                        ToLowerCase(Tokens(sentences[n], SpaceChars)[1])]
        starterRepetition ==
            Cardinality({ w \in Range(starters) : Freq(starters, w) > 2 })
        m == IF Len(sentences) > 1 THEN Len(sentences) ELSE 1
    IN  RMin(Rat(starterRepetition, m), One)

\* contractionPattern at i of the lower-cased text s: position after the
\* match, or 0
ContractionEnd(s, i) ==
    IF ~Boundary(s, i) THEN 0
    ELSE LET contractionWords ==
                 { "can't", "won't", "don't", "isn't", "aren't", "wasn't",
                   "weren't", "haven't", "hasn't", "hadn't", "you're",
                   "we're", "they're", "it's", "that's", "i'm", "i've",
                   "i'll", "there's", "who's", "what's", "where's", "how's" }
             cands == { c \in contractionWords :
                          LitAt(s, i, c) /\ Boundary(s, i + Len(c)) }
         IN  IF cands = {} THEN 0
             ELSE i + Len(CHOOSE c \in cands : TRUE)

\* (text.match(contractionPattern) || []).length
ContractionCount(t) ==
    LET low == ToLowerCase(t)
    IN  Cardinality(MatchStarts(low, [j \in 1..Len(low) |-> ContractionEnd(low, j)]))

\* contractionCount / Math.max(sentences.length, 1)   (not clamped)
ContractionScore(contractionCount, sentences) ==
    LET m == IF Len(sentences) > 1 THEN Len(sentences) ELSE 1
    IN  Rat(contractionCount, m)

\* contractionScore < 0.1 ? 0.8 : 0
LackOfContractions(contractionScore) ==
    IF RLt(contractionScore, <<1, 10>>) THEN <<4, 5>> ELSE Zero

roboticTransitions ==
    { "furthermore", "moreover", "in conclusion", "additionally",
      "consequently", "subsequently", "therefore", "thus", "hence",
      "accordingly", "nevertheless", "notwithstanding",
      "it is important to note", "it should be noted",
      "it is worth mentioning", "in this regard", "in light of",
      "with respect to", "in terms of", "with regard to",
      "as previously mentioned" }

\* roboticTransitions.filter(t => text.toLowerCase().includes(t)).length
TransitionCount(t) ==
    LET low == ToLowerCase(t)
    IN  Cardinality({ r \in roboticTransitions : Includes(low, r) })

\* Math.min(transitionCount / 3, 1)
TransitionScore(transitionCount) == RMin(Rat(transitionCount, 3), One)

\* variant: the two conditions are one indicator pair, pushed together
PerfectStructureIndicatorsBoth(sentences) ==
    LET n == Len(sentences)
        long   == n > 3 /\ \A i \in 1..n :
                               Len(Tokens(sentences[i], SpaceChars)) > 15
        commas == n > 3 /\ \A i \in 1..n : Includes(sentences[i], ",")
    IN  IF long /\ commas THEN 2 ELSE 0

\* perfectStructureIndicators.length (perfectStructure is this count / 2)
PerfectStructureIndicators(sentences) ==
    LET n == Len(sentences)
        long   == n > 3 /\ \A i \in 1..n :
                               Len(Tokens(sentences[i], SpaceChars)) > 15
        commas == n > 3 /\ \A i \in 1..n : Includes(sentences[i], ",")
    IN  (IF long THEN 1 ELSE 0) + (IF commas THEN 1 ELSE 0)

\* uniqueWords.size / words.length
VocabDiversity(words) == Rat(Cardinality(Range(words)), Len(words))

\* vocabDiversity < 0.5 ? 0.6 : 0
LowDiversityScore(vocabDiversity) ==
    IF RLt(vocabDiversity, <<1, 2>>) THEN <<3, 5>> ELSE Zero

\* s.split(sep) for a literal separator
SplitLit(s, sep) ==
    LET M(x, i) == IF LitAt(x, i, sep) THEN i + Len(sep) ELSE 0
        first == SortedSeq(MatchStarts(s, [j \in 1..Len(s) |-> M(s, j)]), 1, Len(s))
    IN  [k \in 1..(Len(first) + 1) |->
            SubSeq(s, IF k = 1 THEN 1 ELSE first[k - 1] + Len(sep),
                      IF k > Len(first) THEN Len(s) ELSE first[k] - 1)]

\* paragraphConsistency > 0.3 for the paragraphs
\* text.split('\n\n').filter(p => p.trim().length > 0): more than one and
\* sqrt(paraVariance) / paraAvg < 0.2, i.e. 25 * paraVariance < paraAvg^2
ParagraphConsistent(t) ==
    LET ps  == SelectSeq(SplitLit(t, "\n\n"), LAMBDA p : Trim(p) # "")
        n   == Len(ps)
        sum == SumSeq([i \in 1..n |-> Len(ps[i])])
        sq  == SumSeq([i \in 1..n |-> Len(ps[i]) * Len(ps[i])])
    IN  n > 1 /\ 25 * (n * sq - sum * sum) < sum * sum

OnlyIf(cond, entry) == IF cond THEN <<entry>> ELSE <<>>

\* variant: threshold 0.25
HighFormalityQuarter(formalityScore) == RLt(<<1, 4>>, formalityScore)

\* formalityScore > 0.15
HighFormality(formalityScore) == RLt(<<3, 20>>, formalityScore)

\* The pattern list; an entry is the fixed text that starts the message (the
\* formatted number that follows it in some entries is left out).
AiPatterns(formalityScore, repetitionScore, phraseRepetition, passiveScore, sentenceVariety, starterScore, lackOfContractions, transitionCount, perfectStructureIndicators, lowDiversityScore, paragraphConsistent) ==
       OnlyIf(HighFormality(formalityScore),
              "High formality level detected")
    \o OnlyIf(RLt(<<2, 25>>, repetitionScore),
              "Word repetition detected")
    \o OnlyIf(phraseRepetition > 3,
              "Phrase repetition detected")
    \o OnlyIf(RLt(<<1, 4>>, passiveScore),
              "Excessive passive voice")
    \o OnlyIf(RLt(sentenceVariety, <<49, 400>>),      \* variety < 0.35
              "Uniform sentence lengths")
    \o OnlyIf(RLt(<<3, 10>>, starterScore),
              "Repetitive sentence starters detected")
    \o OnlyIf(RLt(<<1, 2>>, lackOfContractions),
              "Lack of contractions")
    \o OnlyIf(transitionCount > 0,
              "Robotic transitions detected")
    \o OnlyIf(RLt(<<3, 10>>, Rat(perfectStructureIndicators, 2)),
              "Unnaturally perfect sentence structure")
    \o OnlyIf(RLt(<<3, 10>>, lowDiversityScore),
              "Limited vocabulary diversity")
    \o OnlyIf(paragraphConsistent,
              "Suspiciously consistent paragraph lengths")

\* the weighted sum of the rational terms, the constant 0.15 of
\* (1 - variety) * 0.15 left out
WeightedSum(formalityScore, repetitionScore, passiveScore, starterScore, lackOfContractions, transitionScore, lowDiversityWeighted) ==
    RAdd(RMul(formalityScore, <<1, 5>>),
    RAdd(RMul(repetitionScore, <<3, 20>>),
    RAdd(RMul(passiveScore, <<3, 20>>),
    RAdd(RMul(starterScore, <<1, 10>>),
    RAdd(RMul(lackOfContractions, <<1, 10>>),
    RAdd(RMul(transitionScore, <<1, 10>>), lowDiversityWeighted))))))

\* variant: (sentenceVariety - 1) * 0.15 in place of (1 - sentenceVariety) * 0.15
OverallAIScoreSignSlip(formalityScore, repetitionScore, passiveScore, sentenceVariety, starterScore, lackOfContractions, transitionScore, lowDiversityScore) ==
    LET c == RSub(WeightedSum(formalityScore, repetitionScore, passiveScore,
                              starterScore, lackOfContractions, transitionScore,
                              RMul(lowDiversityScore, <<1, 20>>)),
                  <<3, 20>>)
    IN  SurdMin(Surd(c, <<3, 20>>, sentenceVariety), One)

\* variant: lowDiversityScore weighted 0.10 in place of 0.05
OverallAIScoreWeightSlip(formalityScore, repetitionScore, passiveScore, sentenceVariety, starterScore, lackOfContractions, transitionScore, lowDiversityScore) ==
    LET c == RAdd(WeightedSum(formalityScore, repetitionScore, passiveScore,
                              starterScore, lackOfContractions, transitionScore,
                              RMul(lowDiversityScore, <<1, 10>>)),
                  <<3, 20>>)
    IN  SurdMin(Surd(c, <<-3, 20>>, sentenceVariety), One)

\* Math.min(0.20 f + 0.15 r + 0.15 p + 0.15 (1 - variety) + 0.10 s
\*          + 0.10 lack + 0.10 t + 0.05 low, 1)
\* with variety = sqrt(sentenceVariety), as a surd c + k * sqrt(q)
OverallAIScore(formalityScore, repetitionScore, passiveScore, sentenceVariety, starterScore, lackOfContractions, transitionScore, lowDiversityScore) ==
    LET c == RAdd(WeightedSum(formalityScore, repetitionScore, passiveScore,
                              starterScore, lackOfContractions, transitionScore,
                              RMul(lowDiversityScore, <<1, 20>>)),
                  <<3, 20>>)
    IN  SurdMin(Surd(c, <<-3, 20>>, sentenceVariety), One)

\* variant: && in place of ||
IsInsufficientBoth(words, sentences) == Len(words) = 0 /\ Len(sentences) = 0

\* words.length === 0 || sentences.length === 0
IsInsufficient(words, sentences) == Len(words) = 0 \/ Len(sentences) = 0

\* analyzeAIPatterns(text).  sentenceVariety holds the square of the source's
\* value; the two display strings of detailedMetrics (toFixed) are left out.
analyzeAIPatterns(t) ==
    LET sentences == Sentences(t)
        words     == Words(t)
    IN  IF IsInsufficient(words, sentences)
        THEN [ aiPatterns       |-> <<"Insufficient text for analysis">>,
          formalityScore   |-> Zero,
          repetitionScore  |-> Zero,
          passiveCount     |-> 0,
          passiveScore     |-> Zero,
          sentenceVariety  |-> Zero,
          starterScore     |-> Zero,
          contractionScore |-> Zero,
          transitionScore  |-> Zero,
          vocabDiversity   |-> Zero,
          overallAIScore   |-> Surd(Zero, Zero, Zero),
          detailedMetrics  |-> [ totalWords            |-> Len(words),
                                 totalSentences        |-> Len(sentences),
                                 contractionCount      |-> 0,
                                 passiveVoiceInstances |-> 0 ] ]
        ELSE
        LET formalityScore     == FormalityScore(words)
            repetitionScore    == RepetitionScore(words)
            passiveCount       == PassiveCount(t)
            passiveScore       == PassiveScore(passiveCount, sentences)
            sentenceVariety    == SentenceVariety(sentences)
            starterScore       == StarterScore(sentences)
            contractionCount   == ContractionCount(t)
            contractionScore   == ContractionScore(contractionCount, sentences)
            lackOfContractions == LackOfContractions(contractionScore)
            transitionCount    == TransitionCount(t)
            transitionScore    == TransitionScore(transitionCount)
            vocabDiversity     == VocabDiversity(words)
            lowDiversityScore  == LowDiversityScore(vocabDiversity)
        IN  [ aiPatterns       |->
                  AiPatterns(formalityScore, repetitionScore,
                             PhraseRepetition(words), passiveScore,
                             sentenceVariety, starterScore, lackOfContractions,
                             transitionCount,
                             PerfectStructureIndicators(sentences),
                             lowDiversityScore, ParagraphConsistent(t)),
              formalityScore   |-> formalityScore,
              repetitionScore  |-> repetitionScore,
              passiveCount     |-> passiveCount,
              passiveScore     |-> passiveScore,
              sentenceVariety  |-> sentenceVariety,
              starterScore     |-> starterScore,
              contractionScore |-> contractionScore,
              transitionScore  |-> transitionScore,
              vocabDiversity   |-> vocabDiversity,
              overallAIScore   |->
                  OverallAIScore(formalityScore, repetitionScore, passiveScore,
                                 sentenceVariety, starterScore,
                                 lackOfContractions, transitionScore,
                                 lowDiversityScore),
              detailedMetrics  |->
                  [ totalWords            |-> Len(words),
                    totalSentences        |-> Len(sentences),
                    contractionCount      |-> contractionCount,
                    passiveVoiceInstances |-> passiveCount ] ]

----------------------------------------------------------------------------
(* The rewrite stages of applyHumanization.                                *)

\* /\b<w>\b/ at i of the lower-cased text low, for a lower-case literal w that
\* starts and ends with a word character: position after the match, or 0
WordEnd(low, i, w) ==
    IF Boundary(low, i) /\ LitAt(low, i, w) /\ Boundary(low, i + Len(w))
    THEN i + Len(w) ELSE 0

baseReplacements ==
    << <<"utilize", "use">>, <<"implement", "set up">>, <<"facilitate", "help">>,
       <<"leverage", "use">>, <<"optimize", "improve">>, <<"strategic", "smart">>,
       <<"comprehensive", "complete">>, <<"methodology", "approach">>,
       <<"framework", "system">>, <<"paradigm", "model">>, <<"in order to", "to">>,
       <<"due to the fact that", "because">>,
       <<"it is important to note", "note that">>,
       <<"it should be noted", "worth noting">>, <<"the majority of", "most">>,
       <<"a significant number", "many">>, <<"substantial", "big">>,
       <<"numerous", "many">>, <<"approximately", "about">>,
       <<"regarding", "about">>, <<"concerning", "about">>,
       <<"pertaining to", "about">>, <<"with respect to", "about">>,
       <<"in light of", "because of">>, <<"endeavor", "try">>,
       <<"ascertain", "find out">>, <<"procure", "get">>,
       <<"subsequently", "later">>, <<"therefore", "so">>, <<"thus", "so">>,
       <<"hence", "so">>, <<"accordingly", "so">>,
       <<"consequently", "as a result">>, <<"nevertheless", "but">>,
       <<"nonetheless", "but">>, <<"notwithstanding", "despite">> >>

aggressiveReplacements ==
    << <<"demonstrate", "show">>, <<"indicate", "show">>, <<"illustrate", "show">>,
       <<"establish", "prove">>, <<"determine", "figure out">>,
       <<"examine", "look at">>, <<"analyze", "break down">>,
       <<"evaluate", "check out">>, <<"assess", "judge">>,
       <<"investigate", "look into">>, <<"commence", "start">>,
       <<"terminate", "end">>, <<"initiate", "start">>, <<"conclude", "end">>,
       <<"obtain", "get">>, <<"acquire", "get">>, <<"purchase", "buy">>,
       <<"receive", "get">> >>

\* the loop over the replacements from entry n on:
\* result.replace(new RegExp(`\\b${formal}\\b`, 'gi'), match => capitalized
\* casual when match[0] is upper case, casual otherwise)
RECURSIVE ApplyReplacements(_, _, _)
ApplyReplacements(s, replacements, n) ==
    IF n > Len(replacements) THEN s
    ELSE LET formal == replacements[n][1]
             casual == replacements[n][2]
             low == ToLowerCase(s)
             M(x, i) == WordEnd(low, i, formal)
             R(x, i, e) == IF Char(x, i) \in UpperLetters
                           THEN UpperFirst(casual) ELSE casual
             replaced == IF Includes(low, formal) THEN ReplaceAll(s, [j \in 1..Len(s) |-> M(s, j)],
                   [j \in 1..Len(s) |-> R(s, j, M(s, j))])
                         ELSE s
         IN  IF replaced = s THEN ApplyReplacements(s, replacements, n + 1)
             ELSE ApplyReplacements(replaced, replacements, n + 1)

\* reduceFormality(text, tone, strength)
reduceFormality(t, tn, st) ==
    LET replacements == IF st = "aggressive"
                        THEN baseReplacements \o aggressiveReplacements
                        ELSE baseReplacements
    IN  ApplyReplacements(t, replacements, 1)

\* text.split(/(\s+)/): the words and the white-space runs between them, an
\* empty word before leading and after trailing white space
SplitCapture(s) ==
    LET changes == { i \in 1..Len(s) :
                       \/ i = 1
                       \/ (Char(s, i) \in SpaceChars)
                            # (Char(s, i - 1) \in SpaceChars) }
        first == SortedSeq(changes, 1, Len(s))
        runs  == [k \in 1..Len(first) |->
                    SubSeq(s, first[k],
                           IF k = Len(first) THEN Len(s) ELSE first[k + 1] - 1)]
    IN  (IF s = "" \/ Char(s, 1) \in SpaceChars THEN <<"">> ELSE <<>>)
            \o runs
            \o (IF s # "" /\ Char(s, Len(s)) \in SpaceChars THEN <<"">> ELSE <<>>)

synonymMap ==
    [ important |-> <<"key", "crucial", "vital", "essential", "critical">>,
      good      |-> <<"great", "excellent", "solid", "strong", "effective">>,
      bad       |-> <<"poor", "weak", "problematic", "flawed", "subpar">>,
      big       |-> <<"large", "major", "significant", "substantial", "huge">>,
      small     |-> <<"minor", "tiny", "limited", "modest", "slight">>,
      show      |-> <<"reveal", "display", "demonstrate", "indicate", "present">>,
      make      |-> <<"create", "build", "produce", "generate", "develop">>,
      get       |-> <<"obtain", "acquire", "receive", "gain", "secure">>,
      use       |-> <<"apply", "employ", "utilize", "implement", "deploy">>,
      think     |-> <<"believe", "feel", "consider", "reckon", "figure">>,
      say       |-> <<"state", "mention", "note", "express", "indicate">>,
      help      |-> <<"assist", "support", "aid", "facilitate", "enable">>,
      need      |-> <<"require", "necessitate", "demand", "call for", "want">>,
      want      |-> <<"desire", "wish", "prefer", "seek", "need">> ]

\* The lower-case words for which synonymMap[word] is a property inherited
\* from Object.prototype: the value is truthy and has no synonym at any index
\* (synonymMap.constructor is the function Object, synonymMap.__proto__ is
\* Object.prototype), so `synonym` is undefined.
InheritedKeys == {"constructor", "__proto__"}

\* the tokens at which `count > 1 && synonymMap[lowerWord]` holds: the third
\* and later occurrences of a word the table answers for
RepetitionCandidates(tokens) ==
    LET low == [i \in 1..Len(tokens) |-> ToLowerCase(tokens[i])]
    IN  { i \in 1..Len(tokens) :
            /\ low[i] \in DOMAIN synonymMap \cup InheritedKeys
            /\ Cardinality({ j \in 1..(i - 1) : low[j] = low[i] }) > 1 }

\* reduceRepetition throws a TypeError: a replaced token has no synonym
\* (synonym is undefined) and is capitalized (word[0] === word[0].toUpperCase()),
\* so synonym.charAt is evaluated.
\* pick[i] is 0 when the draw at token i keeps the word, else the 1-based
\* index of the synonym drawn.
reduceRepetitionThrows(t, pick) ==
    LET tokens == SplitCapture(t)
    IN  \E i \in DOMAIN pick :
            /\ pick[i] > 0
            /\ ToLowerCase(tokens[i]) \in InheritedKeys
            /\ Char(tokens[i], 1) \notin LowerLetters

\* reduceRepetition(text, strength) when it returns
reduceRepetition(t, pick) ==
    LET tokens == SplitCapture(t)
        out(i) ==
            IF i \in DOMAIN pick /\ pick[i] > 0
            THEN LET lowerWord == ToLowerCase(tokens[i])
                 IN  IF lowerWord \in InheritedKeys
                     THEN ""           \* result.push(undefined); join('')
                     ELSE LET synonym == synonymMap[lowerWord][pick[i]]
                          IN  IF Char(tokens[i], 1) \notin LowerLetters
                              THEN UpperFirst(synonym) ELSE synonym
            ELSE tokens[i]
    IN  Join([i \in 1..Len(tokens) |-> out(i)], "")

\* one of the words of `alts` at i of low, followed by white space: the
\* position after that white space, or 0
AltThenSpaces(low, i, alts) ==
    LET cands == { w \in alts : /\ LitAt(low, i, w)
                                /\ i + Len(w) <= Len(low)
                                /\ Char(low, i + Len(w)) \in SpaceChars }
    IN  IF cands = {} THEN 0
        ELSE SkipChars(low, i + Len(CHOOSE w \in cands : TRUE), SpaceChars)

\* (\w+ed) followed by \s at j of low: the position after the word, which is
\* a whole run of word characters ending in "ed"; or 0
EdWordEnd(low, j) ==
    LET k == SkipChars(low, j, WordChars)
    IN  IF j > 0 /\ k - j >= 3 /\ SubSeq(low, k - 2, k - 1) = "ed" THEN k ELSE 0

NoMatch == [e |-> 0, g1 |-> <<1, 0>>, g2 |-> <<1, 0>>, g3 |-> <<1, 0>>]

\* /(\w+)\s+(?:<auxes>)\s+(\w+ed)\s+by\s+(\w+)/gi at i of low: the position e
\* after the match and the groups as <<first, last>> positions; e = 0 when
\* the pattern does not match at i.  The match is read left to right:
\* ByAgent reads \s+by\s+(\w+) after the participle that ends before k
ByAgent(low, i, j1, j3, k) ==
    LET j4 == SkipChars(low, k, SpaceChars)
        j5 == SkipChars(low, j4 + 2, SpaceChars)
        e  == SkipChars(low, j5, WordChars)
    IN  IF j4 > k /\ LitAt(low, j4, "by") /\ j5 > j4 + 2 /\ e > j5
        THEN [e |-> e, g1 |-> <<i, j1 - 1>>, g2 |-> <<j3, k - 1>>,
              g3 |-> <<j5, e - 1>>]
        ELSE NoMatch

\* (\w+ed) at j3, then the agent
ByParticiple(low, i, j1, j3) ==
    LET k == EdWordEnd(low, j3)
    IN  IF k > 0 THEN ByAgent(low, i, j1, j3, k) ELSE NoMatch

\* \s+(?:<auxes>)\s+ after the first word, which ends before j1
ByAuxiliary(low, i, j1, auxes) ==
    LET j2 == SkipChars(low, j1, SpaceChars)
        j3 == AltThenSpaces(low, j2, auxes)
    IN  IF j2 > j1 /\ j3 > 0 THEN ByParticiple(low, i, j1, j3) ELSE NoMatch

PassiveByMatch(low, i, auxes) ==
    LET j1 == SkipChars(low, i, WordChars)            \* after (\w+)
    IN  IF j1 > i THEN ByAuxiliary(low, i, j1, auxes) ELSE NoMatch

\* (\w+ed)\s+that at j3
ThatAfterParticiple(low, j3) ==
    LET k  == EdWordEnd(low, j3)
        j4 == SkipChars(low, k, SpaceChars)
    IN  IF k > 0 /\ j4 > k /\ LitAt(low, j4, "that")
        THEN [e |-> j4 + 4, g1 |-> <<j3, k - 1>>, g2 |-> <<1, 0>>,
              g3 |-> <<1, 0>>]
        ELSE NoMatch

\* (?:is|was)\s+ at j1
ItAuxiliary(low, j1) ==
    LET j3 == AltThenSpaces(low, j1, {"is", "was"})
    IN  IF j3 > 0 THEN ThatAfterParticiple(low, j3) ELSE NoMatch

\* /it\s+(?:is|was)\s+(\w+ed)\s+that/gi at i of low
ItIsThatMatch(low, i) ==
    LET j1 == SkipChars(low, i + 2, SpaceChars)
    IN  IF LitAt(low, i, "it") /\ j1 > i + 2 THEN ItAuxiliary(low, j1)
        ELSE NoMatch

\* (\w+ed) at j4, the last element of the regex: the longest prefix of the
\* run of word characters at j4 that ends in "ed" after a character
CanBeParticiple(low, i, j1, j4) ==
    LET ends == { q \in (j4 + 3)..SkipChars(low, j4, WordChars) :
                    SubSeq(low, q - 2, q - 1) = "ed" }
        e    == IF ends = {} THEN 0
                ELSE CHOOSE q \in ends : \A r \in ends : r <= q
    IN  IF e > 0
        THEN [e |-> e, g1 |-> <<i, j1 - 1>>, g2 |-> <<j4, e - 1>>,
              g3 |-> <<1, 0>>]
        ELSE NoMatch

\* be\s+ at j3
CanBe(low, i, j1, j3) ==
    LET j4 == AltThenSpaces(low, j3, {"be"})
    IN  IF j4 > 0 THEN CanBeParticiple(low, i, j1, j4) ELSE NoMatch

\* \s+(?:can|could)\s+ after the first word, which ends before j1
CanAuxiliary(low, i, j1) ==
    LET j2 == SkipChars(low, j1, SpaceChars)
        j3 == AltThenSpaces(low, j2, {"can", "could"})
    IN  IF j2 > j1 /\ j3 > 0 THEN CanBe(low, i, j1, j3) ELSE NoMatch

\* /(\w+)\s+(?:can|could)\s+be\s+(\w+ed)/gi at i of low
CanBeMatch(low, i) ==
    LET j1 == SkipChars(low, i, WordChars)
    IN  IF j1 > i THEN CanAuxiliary(low, i, j1) ELSE NoMatch

Group(s, g) == SubSeq(s, g[1], g[2])

\* result.replace(/(\w+)\s+(?:is|are)\s+(\w+ed)\s+by\s+(\w+)/gi, '$3 $2s $1')
IsByToActive(s) ==
    LET low == ToLowerCase(s)
        M(x, i) == PassiveByMatch(low, i, {"is", "are"}).e
        R(x, i, e) == LET m == PassiveByMatch(low, i, {"is", "are"})
                      IN  Group(x, m.g3) \o " " \o Group(x, m.g2) \o "s "
                              \o Group(x, m.g1)
    IN  ReplaceAll(s, [j \in 1..Len(s) |-> M(s, j)],
                   [j \in 1..Len(s) |-> R(s, j, M(s, j))])

\* result.replace(/(\w+)\s+(?:was|were)\s+(\w+ed)\s+by\s+(\w+)/gi, '$3 $2 $1')
WasByToActive(s) ==
    LET low == ToLowerCase(s)
        M(x, i) == PassiveByMatch(low, i, {"was", "were"}).e
        R(x, i, e) == LET m == PassiveByMatch(low, i, {"was", "were"})
                      IN  Group(x, m.g3) \o " " \o Group(x, m.g2) \o " "
                              \o Group(x, m.g1)
    IN  ReplaceAll(s, [j \in 1..Len(s) |-> M(s, j)],
                   [j \in 1..Len(s) |-> R(s, j, M(s, j))])

\* result.replace(/it\s+(?:is|was)\s+(\w+ed)\s+that/gi, 'we $1 that')
ItIsThatToActive(s) ==
    LET low == ToLowerCase(s)
        M(x, i) == ItIsThatMatch(low, i).e
        R(x, i, e) == "we " \o Group(x, ItIsThatMatch(low, i).g1) \o " that"
    IN  ReplaceAll(s, [j \in 1..Len(s) |-> M(s, j)],
                   [j \in 1..Len(s) |-> R(s, j, M(s, j))])

\* result.replace(/(\w+)\s+(?:can|could)\s+be\s+(\w+ed)/gi, 'you can $2 $1')
CanBeToActive(s) ==
    LET low == ToLowerCase(s)
        M(x, i) == CanBeMatch(low, i).e
        R(x, i, e) == LET m == CanBeMatch(low, i)
                      IN  "you can " \o Group(x, m.g2) \o " " \o Group(x, m.g1)
    IN  ReplaceAll(s, [j \in 1..Len(s) |-> M(s, j)],
                   [j \in 1..Len(s) |-> R(s, j, M(s, j))])

\* convertPassiveToActive(text, strength): `convert` is the outcome of the
\* draw Math.random() > intensity (FALSE: the text is returned as it is)
convertPassiveToActive(t, convert) ==
    IF convert
    THEN CanBeToActive(ItIsThatToActive(WasByToActive(IsByToActive(t))))
    ELSE t

\* text.match(/[^.!?]+[.!?]+/g): each run of other characters together with
\* the run of '.', '!', '?' that follows it; a run of them at the start of
\* the text and a last run without terminator are in no match
\* SentenceMatches is text.match(/[^.!?]+[.!?]+/g) || [text]
SentenceMatches(t) ==
    LET first == SortedSeq(RunStarts(t, Terminators), 1, Len(t))
        last  == SortedSeq(RunEnds(t, CharsOf(t) \ Terminators), 1, Len(t))
        skip  == IF t # "" /\ Char(t, 1) \in Terminators THEN 1 ELSE 0
    IN  IF Len(last) - skip <= 0 THEN <<t>>
        ELSE [k \in 1..(Len(last) - skip) |->
                 SubSeq(t, first[k], last[k + skip])]

\* the patterns of addContractions (case-sensitive, /\b...\b/g), in order
contractions ==
    << <<"I am", "I'm">>, <<"you are", "you're">>, <<"we are", "we're">>,
       <<"they are", "they're">>, <<"it is", "it's">>, <<"that is", "that's">>,
       <<"what is", "what's">>, <<"who is", "who's">>, <<"do not", "don't">>,
       <<"does not", "doesn't">>, <<"did not", "didn't">>,
       <<"cannot", "can't">>, <<"could not", "couldn't">>,
       <<"would not", "wouldn't">>, <<"should not", "shouldn't">>,
       <<"will not", "won't">>, <<"have not", "haven't">>,
       <<"has not", "hasn't">>, <<"had not", "hadn't">>, <<"is not", "isn't">>,
       <<"are not", "aren't">>, <<"was not", "wasn't">>,
       <<"were not", "weren't">> >>

\* result.replace(pattern, replacement) for one entry of contractions
Contract(s, n) ==
    LET M(x, i) == WordEnd(x, i, contractions[n][1])
        R(x, i, e) == contractions[n][2]
    IN  ReplaceAll(s, [j \in 1..Len(s) |-> M(s, j)],
                   [j \in 1..Len(s) |-> R(s, j, M(s, j))])

\* the patterns that match in the text; the replacements put no new match of
\* a later pattern into the text
ContractionSites(t) ==
    { n \in 1..Len(contractions) :
        Includes(t, contractions[n][1]) /\ Contract(t, n) # t }

RECURSIVE ContractFrom(_, _, _)
ContractFrom(s, applied, n) ==
    IF n > Len(contractions) THEN s
    ELSE LET replaced == IF n \in applied THEN Contract(s, n) ELSE s
         IN  IF replaced = s THEN ContractFrom(s, applied, n + 1)
             ELSE ContractFrom(replaced, applied, n + 1)

\* addContractions(text, strength): `applied` is the set of patterns whose
\* draw Math.random() < intensity succeeded
addContractions(t, applied) == ContractFrom(t, applied, 1)

\* startWithConjunction(sentence) when the draw succeeds: conj is the
\* conjunction drawn; the sentence is returned as it is unless /^[A-Z]/
conjunctions == <<"And", "But", "Or", "So", "Yet", "Because">>

startWithConjunction(sentence, conj) ==
    IF sentence # "" /\ Char(sentence, 1) \in UpperLetters
    THEN conj \o " " \o LowerFirst(sentence)
    ELSE sentence

connectors == <<", and", ", but", ", so", ", yet", " - ", ";">>

\* combineSentences(sent1, sent2); `kept` are the lengths sent1 can have
\* without a run of terminators at its end: sent1.replace(/[.!?]+$/, '')
combineSentences(sent1, sent2, connector) ==
    LET kept == { k \in 0..Len(sent1) :
                    \A q \in (k + 1)..Len(sent1) : Char(sent1, q) \in Terminators }
    IN  IF sent1 = "" \/ sent2 = ""
        THEN IF sent2 # "" THEN sent2 ELSE sent1
        ELSE SubSeq(sent1, 1, CHOOSE k \in kept : \A r \in kept : k <= r)
                 \o connector \o " " \o LowerFirst(sent2)

\* sentence.split(/\s+/): the white-space separated pieces, an empty piece
\* before leading and after trailing white space
SplitSpaces(s) ==
    LET c == SplitCapture(s)
    IN  [i \in 1..((Len(c) + 1) \div 2) |-> c[2 * i - 1]]

\* splitSentence(sentence)
splitSentence(sentence) ==
    LET words == SplitSpaces(sentence)
    IN  IF Len(words) > 15
        THEN LET midpoint == Len(words) \div 2
             IN  Join(SubSeq(words, 1, midpoint), " ") \o ". "
                     \o UpperFirst(Join(SubSeq(words, midpoint + 1,
                                                Len(words)), " "))
        ELSE sentence

\* The transforms a draw of varySentenceStructure can select for a sentence,
\* with the draws made inside them; the transforms whose inner draw fails or
\* whose condition does not hold return the sentence as it is, like no
\* transform at all, and are not listed.
\*   <<"contract", applied>>  addContraction with the patterns `applied`
\*   <<"conjunction", conj>>  startWithConjunction
\*   <<"combine", connector>> combineSentences with the last result
\*   <<"split">>              splitSentence
VaryOptions(sentences, i) ==
    LET sentence == Trim(sentences[i])
    IN       { <<"contract", a>> : a \in SUBSET ContractionSites(sentence) \ {{}} }
        \cup (IF sentence # "" /\ Char(sentence, 1) \in UpperLetters
              THEN { <<"conjunction", conjunctions[c]>> :
                       c \in 1..Len(conjunctions) }
              ELSE {})
        \cup (IF i > 1 /\ Len(sentences) > 2
              THEN { <<"combine", connectors[c]>> : c \in 1..Len(connectors) }
              ELSE {})
        \cup (IF Len(SplitSpaces(sentence)) > 15 THEN { <<"split">> } ELSE {})

\* the body of the loop of varySentenceStructure from sentence i on, `out`
\* the result array so far; pick[i] is the transform drawn for sentence i
RECURSIVE VaryFrom(_, _, _, _)
VaryFrom(sentences, pick, i, out) ==
    IF i > Len(sentences) THEN out
    ELSE
    LET sentence == Trim(sentences[i])
        last == IF out = <<>> THEN "" ELSE out[Len(out)]
        transformed ==
            IF i \notin DOMAIN pick THEN sentence
            ELSE CASE pick[i][1] = "contract" ->
                          addContractions(sentence, pick[i][2])
                   [] pick[i][1] = "conjunction" ->
                          startWithConjunction(sentence, pick[i][2])
                   [] pick[i][1] = "combine" ->
                          combineSentences(last, sentence, pick[i][2])
                   [] pick[i][1] = "split" -> splitSentence(sentence)
    IN  IF /\ i \in DOMAIN pick
           /\ transformed # sentence /\ i > 1 /\ out # <<>>
           /\ Includes(transformed, last)
        THEN VaryFrom(sentences, pick, i + 1,
                      [out EXCEPT ![Len(out)] = transformed])
        ELSE VaryFrom(sentences, pick, i + 1, Append(out, transformed))

\* varySentenceStructure(text, strength)
varySentenceStructure(t, pick) ==
    Join(VaryFrom(SentenceMatches(t), pick, 1, <<>>), " ")

removals ==
    << <<"furthermore,", "plus,">>, <<"moreover,", "also,">>,
       <<"in conclusion,", "so,">>, <<"additionally,", "also,">>,
       <<"consequently,", "so,">>, <<"subsequently,", "later,">>,
       <<"therefore,", "so,">>, <<"thus,", "so,">>, <<"hence,", "so,">>,
       <<"accordingly,", "so,">>, <<"nevertheless,", "but,">>,
       <<"nonetheless,", "but,">>,
       <<"it is important to note that", "note that">>,
       <<"it should be noted that", "worth noting that">>,
       <<"it is worth mentioning that", "worth mentioning that">> >>

\* the loop over removals from entry n on:
\* result.replace(new RegExp(robotic, 'gi'), natural)
RECURSIVE RemoveFrom(_, _)
RemoveFrom(s, n) ==
    IF n > Len(removals) THEN s
    ELSE LET robotic == removals[n][1]
             natural == removals[n][2]
             low == ToLowerCase(s)
             M(x, i) == IF LitAt(low, i, robotic) THEN i + Len(robotic) ELSE 0
             R(x, i, e) == natural
             replaced == IF Includes(low, robotic) THEN ReplaceAll(s, [j \in 1..Len(s) |-> M(s, j)],
                   [j \in 1..Len(s) |-> R(s, j, M(s, j))])
                         ELSE s
         IN  IF replaced = s THEN RemoveFrom(s, n + 1)
             ELSE RemoveFrom(replaced, n + 1)

\* removeRoboticTransitions(text)
removeRoboticTransitions(t) == RemoveFrom(t, 1)

\* the loop of makeCasual, makeAcademic and makeCreative: pick[i] is the
\* marker drawn for sentence i, `glue` what joins the marker to the sentence
MarkSentences(t, pick, glue) ==
    LET sentences == SentenceMatches(t)
    IN  Join([i \in 1..Len(sentences) |->
            IF i \in DOMAIN pick
            THEN pick[i] \o glue \o LowerFirst(sentences[i])
            ELSE sentences[i]], " ")

makeCasual(t, pick)   == MarkSentences(t, pick, ", ")
makeAcademic(t, pick) == MarkSentences(t, pick, ", ")
makeCreative(t, pick) == MarkSentences(t, pick, " - ")

\* result.replace(/\b<slang>\b/gi, formal)
ReplaceWordCI(s, slang, formal) ==
    LET low == ToLowerCase(s)
        M(x, i) == WordEnd(low, i, slang)
        R(x, i, e) == formal
    IN  ReplaceAll(s, [j \in 1..Len(s) |-> M(s, j)],
                   [j \in 1..Len(s) |-> R(s, j, M(s, j))])

\* makeProfessional without its replacement of "yeah"
makeProfessionalKeepsYeah(t) ==
    ReplaceWordCI(
      ReplaceWordCI(
        ReplaceWordCI(
          ReplaceWordCI(t, "kinda", "somewhat"),
          "gonna", "going to"),
        "wanna", "want to"),
      "nope", "no")

\* makeProfessional(text, strength)
makeProfessional(t) ==
    ReplaceWordCI(
      ReplaceWordCI(
        ReplaceWordCI(
          ReplaceWordCI(
            ReplaceWordCI(t, "kinda", "somewhat"),
            "gonna", "going to"),
          "wanna", "want to"),
        "yeah", "yes"),
      "nope", "no")

\* the markers a tone's sentence loop draws from (none for professional)
\* (casualMarkers, academicMarkers, creativeMarkers)
ToneMarkers(tn) ==
    CASE tn = "casual"   ->
             <<"honestly", "look", "you know", "like", "actually", "basically",
               "literally", "seriously">>
      [] tn = "academic" ->
             <<"interestingly", "notably", "it's worth noting", "this suggests",
               "significantly", "evidently">>
      [] tn = "creative" ->
             <<"imagine", "picture this", "here's what's interesting",
               "the beauty is", "get this", "check it out">>
      [] OTHER           -> <<>>

\* applyToneTransformations(text, tone, strength)
applyToneTransformations(t, tn, pick) ==
    CASE tn = "casual"       -> makeCasual(t, pick)
      [] tn = "professional" -> makeProfessional(t)
      [] tn = "academic"     -> makeAcademic(t, pick)
      [] tn = "creative"     -> makeCreative(t, pick)
      [] OTHER               -> t

emphasisWords ==
    [ casual       |-> <<"really", "actually", "honestly", "totally",
                         "definitely", "pretty">>,
      professional |-> <<"certainly", "indeed", "clearly", "notably",
                         "particularly">>,
      academic     |-> <<"significantly", "particularly", "notably",
                         "especially", "considerably">>,
      creative     |-> <<"incredibly", "amazingly", "beautifully",
                         "remarkably", "strikingly">> ]

\* /\b(is|are|was|were|has|have)\b/gi at i of low
CopulaEnd(low, i) ==
    IF ~Boundary(low, i) THEN 0
    ELSE LET cands == { w \in {"is", "are", "was", "were", "has", "have"} :
                          LitAt(low, i, w) /\ Boundary(low, i + Len(w)) }
         IN  IF cands = {} THEN 0 ELSE i + Len(CHOOSE w \in cands : TRUE)

\* the positions where addNaturalFlow draws
FlowSites(t) ==
    LET low == ToLowerCase(t)
        M(x, i) == CopulaEnd(low, i)
    IN  MatchStarts(t, [j \in 1..Len(t) |-> M(t, j)])

\* addNaturalFlow(text, tone, strength): pick[i] is the emphasis word drawn
\* for the match at position i
addNaturalFlow(t, pick) ==
    LET low == ToLowerCase(t)
        M(x, i) == CopulaEnd(low, i)
        R(x, i, e) == IF i \in DOMAIN pick
                      THEN pick[i] \o " " \o SubSeq(x, i, e - 1)
                      ELSE SubSeq(x, i, e - 1)
    IN  ReplaceAll(t, [j \in 1..Len(t) |-> M(t, j)],
                   [j \in 1..Len(t) |-> R(t, j, M(t, j))])

personalTouches ==
    [ casual       |-> <<"Let me tell you", "Here's the deal", "The thing is",
                         "You see">>,
      professional |-> <<"It's important to understand", "Consider this",
                         "What we're seeing is">>,
      academic     |-> <<"It bears mentioning", "One must consider",
                         "The evidence suggests">>,
      creative     |-> <<"Here's what's wild", "The fascinating part is",
                         "You won't believe this">> ]

\* injectPersonality(text, tone): pick is empty when the draw fails or there
\* are fewer than three sentences, else pick[insertPoint] is the touch drawn
injectPersonality(t, pick) ==
    LET sentences == SentenceMatches(t)
    IN  Join([i \in 1..Len(sentences) |->
            IF i \in DOMAIN pick
            THEN pick[i] \o " - " \o LowerFirst(sentences[i])
            ELSE sentences[i]], " ")

\* the steps of finalPolish
PolishSpaces(s) ==                                \* /\s+/g -> ' '
    LET M(x, i) == IF Char(x, i) \in SpaceChars
                   THEN SkipChars(x, i, SpaceChars) ELSE 0
        R(x, i, e) == " "
    IN  ReplaceAll(s, [j \in 1..Len(s) |-> M(s, j)],
                   [j \in 1..Len(s) |-> R(s, j, M(s, j))])

PolishBeforePunctuation(s) ==                     \* /\s+([.,!?;:])/g -> '$1'
    LET M(x, i) ==
            LET e == SkipChars(x, i, SpaceChars)
            IN  IF e > i /\ e <= Len(x) /\ Char(x, e) \in Punctuation
                THEN e + 1 ELSE 0
        R(x, i, e) == Char(x, e - 1)
    IN  ReplaceAll(s, [j \in 1..Len(s) |-> M(s, j)],
                   [j \in 1..Len(s) |-> R(s, j, M(s, j))])

PolishAfterPunctuation(s) ==                      \* /([.,!?;:])\s*/g -> '$1 '
    LET M(x, i) == IF Char(x, i) \in Punctuation
                   THEN SkipChars(x, i + 1, SpaceChars) ELSE 0
        R(x, i, e) == Char(x, i) \o " "
    IN  ReplaceAll(s, [j \in 1..Len(s) |-> M(s, j)],
                   [j \in 1..Len(s) |-> R(s, j, M(s, j))])

PolishRepeated(s, c) ==                           \* /c+/g -> 'c'
    LET M(x, i) == IF Char(x, i) = c THEN SkipChars(x, i, {c}) ELSE 0
        R(x, i, e) == c
    IN  ReplaceAll(s, [j \in 1..Len(s) |-> M(s, j)],
                   [j \in 1..Len(s) |-> R(s, j, M(s, j))])

\* variant: /(\.\s+)(\w)/g, after a period only
PolishCapitalizeAfterPeriod(s) ==
    LET M(x, i) ==
            IF Char(x, i) = "."
            THEN LET e == SkipChars(x, i + 1, SpaceChars)
                 IN  IF e > i + 1 /\ e <= Len(x) /\ Char(x, e) \in WordChars
                     THEN e + 1 ELSE 0
            ELSE 0
        R(x, i, e) == SubSeq(x, i, e - 2) \o UpperChar(Char(x, e - 1))
    IN  ReplaceAll(s, [j \in 1..Len(s) |-> M(s, j)],
                   [j \in 1..Len(s) |-> R(s, j, M(s, j))])

PolishCapitalize(s) ==              \* /([.!?]\s+)(\w)/g -> punct + upper case
    LET M(x, i) ==
            IF Char(x, i) \in Terminators
            THEN LET e == SkipChars(x, i + 1, SpaceChars)
                 IN  IF e > i + 1 /\ e <= Len(x) /\ Char(x, e) \in WordChars
                     THEN e + 1 ELSE 0
            ELSE 0
        R(x, i, e) == SubSeq(x, i, e - 2) \o UpperChar(Char(x, e - 1))
    IN  ReplaceAll(s, [j \in 1..Len(s) |-> M(s, j)],
                   [j \in 1..Len(s) |-> R(s, j, M(s, j))])

PolishDash(s) ==                                  \* /\s+-\s+/g -> ' - '
    LET M(x, i) ==
            LET d == SkipChars(x, i, SpaceChars)
            IN  IF /\ d > i /\ d <= Len(x) /\ Char(x, d) = "-"
                   /\ SkipChars(x, d + 1, SpaceChars) > d + 1
                THEN SkipChars(x, d + 1, SpaceChars) ELSE 0
        R(x, i, e) == " - "
    IN  ReplaceAll(s, [j \in 1..Len(s) |-> M(s, j)],
                   [j \in 1..Len(s) |-> R(s, j, M(s, j))])

PolishBefore(s, c) ==                             \* /\s+c/g -> 'c'
    LET M(x, i) ==
            LET e == SkipChars(x, i, SpaceChars)
            IN  IF e > i /\ e <= Len(x) /\ Char(x, e) = c THEN e + 1 ELSE 0
        R(x, i, e) == c
    IN  ReplaceAll(s, [j \in 1..Len(s) |-> M(s, j)],
                   [j \in 1..Len(s) |-> R(s, j, M(s, j))])

\* finalPolish(text)
finalPolish(t) ==
    LET r1  == PolishSpaces(t)
        r2  == PolishBeforePunctuation(r1)
        r3  == PolishAfterPunctuation(r2)
        r4  == PolishRepeated(r3, ".")
        r5  == PolishRepeated(r4, "?")
        r6  == PolishRepeated(r5, "!")
        r7  == PolishCapitalize(r6)
        r8  == UpperFirst(r7)
        r9  == PolishDash(r8)
        r10 == PolishBefore(r9, ",")
        r11 == PolishBefore(r10, ".")
    IN  Trim(r11)

----------------------------------------------------------------------------
(* Inputs: a text is a concatenation of at most MaxPieces pieces.          *)

RECURSIVE SeqsUpTo(_, _)
SeqsUpTo(S, n) ==
    IF n = 0 THEN { <<>> }
    ELSE LET shorter == SeqsUpTo(S, n - 1)
         IN  shorter \cup { Append(q, x) : q \in shorter, x \in S }

TextsOf(pieces, n) == { Join(q, "") : q \in SeqsUpTo(pieces, n) }

MaxAnalysisPieces == 3

\* texts of at most MaxAnalysisPieces of these pieces
AnalysisTexts ==
    TextsOf({ " ", ".", "!?", "\n\n", "use. ", "a. b. c. ", "don't ", "utilize ",
      "good good good ", "It was tested by them. ", "thus, ",
      "a b c d e f g h. " }, MaxAnalysisPieces)

\* n copies of piece
RECURSIVE Repeat(_, _)
Repeat(piece, n) ==
    IF n = 0 THEN ""
    ELSE IF n = 1 THEN piece
    ELSE Repeat(piece, n \div 2) \o Repeat(piece, n - n \div 2)

MaxFormal == 3
MaxFiller == 97

\* texts of up to MaxFormal formal words followed by up to MaxFiller others
FormalityTexts ==
    { Repeat("utilize ", f) \o Repeat("a ", n) :
        f \in 0..MaxFormal, n \in 0..MaxFiller }

----------------------------------------------------------------------------
(* The analyzer alone: one call of analyzeAIPatterns on an input text.     *)

InitAnalyze ==
    /\ text \in AnalysisTexts
    /\ analysis = Undefined
    /\ tone = NotCalled
    /\ strength = NotCalled
    /\ analysisArg = Undefined
    /\ result = ""
    /\ pc = "start"
    /\ pass = 0
    /\ polished = ""
    /\ hits = 0
    /\ outer = 0
    /\ optPasses = 0
    /\ trace = <<>>

\* const analysis = analyzeAIPatterns(text)
Analyze ==
    /\ pc = "start"
    /\ analysis' = analyzeAIPatterns(text)
    /\ pc' = "analyzed"
    /\ UNCHANGED <<text, tone, strength, analysisArg, result, pass, polished,
                   hits, outer, optPasses, trace>>

SpecAnalyze == InitAnalyze /\ [][Analyze]_vars

\* the analyzer on texts around the formality threshold
InitFormality ==
    /\ text \in FormalityTexts
    /\ analysis = Undefined
    /\ tone = NotCalled
    /\ strength = NotCalled
    /\ analysisArg = Undefined
    /\ result = ""
    /\ pc = "start"
    /\ pass = 0
    /\ polished = ""
    /\ hits = 0
    /\ outer = 0
    /\ optPasses = 0
    /\ trace = <<>>

SpecFormality == InitFormality /\ [][Analyze]_vars

MaxSentences == 4

\* the analyzer on texts of up to MaxSentences sentences of each of four
\* kinds: short or longer than 15 words, without or with a comma; each kind
\* has its own first word
InitSentences ==
    /\ text \in { Repeat("a. ", i) \o Repeat("b, c. ", j)
                    \o Repeat("d d d d d d d d d d d d d d d d. ", k)
                    \o Repeat("e, e e e e e e e e e e e e e e e. ", l) :
                  i \in 0..MaxSentences, j \in 0..MaxSentences,
                  k \in 0..MaxSentences, l \in 0..MaxSentences }
    /\ analysis = Undefined
    /\ tone = NotCalled
    /\ strength = NotCalled
    /\ analysisArg = Undefined
    /\ result = ""
    /\ pc = "start"
    /\ pass = 0
    /\ polished = ""
    /\ hits = 0
    /\ outer = 0
    /\ optPasses = 0
    /\ trace = <<>>

SpecSentences == InitSentences /\ [][Analyze]_vars

----------------------------------------------------------------------------
(* finalPolish alone: applied to an input text, then to its own output.    *)

MaxPolishPieces == 4

PolishTexts ==
    TextsOf({ " ", "a", "b", ".", "?", ",", "-", "\n" }, MaxPolishPieces)

InitPolish ==
    /\ text \in PolishTexts
    /\ analysis = Undefined
    /\ tone = NotCalled
    /\ strength = NotCalled
    /\ analysisArg = Undefined
    /\ result = ""
    /\ pc = "start"
    /\ pass = 0
    /\ polished = ""
    /\ hits = 0
    /\ outer = 0
    /\ optPasses = 0
    /\ trace = <<>>

\* finalPolish(text)
Polish ==
    /\ pc = "start"
    /\ result' = finalPolish(text)
    /\ pc' = "polished"
    /\ UNCHANGED <<text, analysis, tone, strength, analysisArg, pass, polished,
                   hits, outer, optPasses, trace>>

\* finalPolish(finalPolish(text))
PolishAgain ==
    /\ pc = "polished"
    /\ polished' = finalPolish(result)
    /\ pc' = "repolished"
    /\ UNCHANGED <<text, analysis, tone, strength, analysisArg, result, pass,
                   hits, outer, optPasses, trace>>

SpecPolish == InitPolish /\ [][Polish \/ PolishAgain]_vars

----------------------------------------------------------------------------
(* The pipeline: analyzeAIPatterns, then one call of applyHumanization,    *)
(* one action per stage of its loop.                                       *)

MaxPipelinePieces == 1

PipelineTexts ==
    TextsOf({ "Utilize it. It is tested by them. ",
              "So it is tested by them. ",
              "good good good good ",
              "constructor constructor Constructor ",
              "Kinda wannabe. Yeah. Nope, it is not. ",
              "Thus, we utilize it. A b. C d. ",
              "A b. C d. E f. ",
              "Moreover , a b. c d",
              "constructor constructor constructor ",
              "utilize utilize utilize " },
            MaxPipelinePieces)

Tones == {"casual", "professional", "academic", "creative"}

Strengths == {"light", "medium", "aggressive"}

\* the successful draws of one run are at most MaxHits
MaxHits == 1

\* The outcomes of the draws of a stage: the partial functions that give each
\* site whose draw succeeds one of the options options[site] of that site, for at
\* most `budget` sites.
Picks(sites, options, budget) ==
    UNION { { f \in [D -> UNION { options[x] : x \in D }] :
                \A x \in D : f[x] \in options[x] } :
            D \in { E \in SUBSET sites : Cardinality(E) <= budget } }

Init ==
    /\ text \in PipelineTexts
    /\ analysis = Undefined
    /\ tone = NotCalled
    /\ strength = NotCalled
    /\ analysisArg = Undefined
    /\ result = ""
    /\ pc = "start"
    /\ pass = 0
    /\ polished = ""
    /\ hits = MaxHits
    /\ outer = 0
    /\ optPasses = 0
    /\ trace = <<>>

\* the trace after the stage function `stage` is applied
Ran(stage) == Append(trace, [call |-> outer, pass |-> pass, stage |-> stage])

\* applyHumanization(text, tone, strength, analysis)
Call ==
    /\ pc = "analyzed"
    /\ tone' \in Tones
    /\ strength' \in Strengths
    /\ analysisArg' = analysis
    /\ result' = text
    /\ pass' = 0
    /\ pc' = "reduceFormality"
    /\ UNCHANGED <<text, analysis, polished, hits, outer, optPasses, trace>>

\* applyHumanization(text, 'casual', analysis): the third argument binds
\* `strength`, and `analysis` is undefined
CallReadme ==
    /\ pc = "analyzed"
    /\ tone' = "casual"
    /\ strength' = ObjectArg
    /\ analysisArg' = Undefined
    /\ result' = text
    /\ pass' = 0
    /\ pc' = "reduceFormality"
    /\ UNCHANGED <<text, analysis, polished, hits, outer, optPasses, trace>>

\* variant: strength === 'aggressive' ? 3 : 2
PassesNoLight(st) == IF st = "aggressive" THEN 3 ELSE 2

\* strength === 'aggressive' ? 3 : strength === 'medium' ? 2 : 1
Passes(st) == IF st = "aggressive" THEN 3 ELSE IF st = "medium" THEN 2 ELSE 1

\* if (analysis.formalityScore > 0.1) result = reduceFormality(...)
\* reading a property of undefined throws a TypeError
ReduceFormality ==
    /\ pc = "reduceFormality"
    /\ IF analysisArg = Undefined
       THEN /\ pc' = "threw"
            /\ UNCHANGED <<result, trace>>
       ELSE /\ IF RLt(<<1, 10>>, analysisArg.formalityScore)
               THEN /\ result' = reduceFormality(result, tone, strength)
                    /\ trace' = Ran("reduceFormality")
               ELSE UNCHANGED <<result, trace>>
            /\ pc' = "reduceRepetition"
    /\ UNCHANGED <<text, analysis, tone, strength, analysisArg, pass, polished,
                   hits, outer, optPasses>>

\* if (analysis.repetitionScore > 0.05) result = reduceRepetition(...)
ReduceRepetition ==
    /\ pc = "reduceRepetition"
    /\ IF RLt(<<1, 20>>, analysisArg.repetitionScore)
       THEN LET tokens == SplitCapture(result)
                Synonyms(i) ==
                    IF ToLowerCase(tokens[i]) \in InheritedKeys THEN {1}
                    ELSE 1..Len(synonymMap[ToLowerCase(tokens[i])])
            IN  \E pick \in Picks(RepetitionCandidates(tokens),
                                     [x \in RepetitionCandidates(tokens) |-> Synonyms(x)], hits) :
                    /\ hits' = hits - Cardinality(DOMAIN pick)
                    /\ trace' = Ran("reduceRepetition")
                    /\ IF reduceRepetitionThrows(result, pick)
                       THEN /\ pc' = "threw"
                            /\ UNCHANGED result
                       ELSE /\ result' = reduceRepetition(result, pick)
                            /\ pc' = "convertPassiveToActive"
       ELSE /\ pc' = "convertPassiveToActive"
            /\ UNCHANGED <<result, hits, trace>>
    /\ UNCHANGED <<text, analysis, tone, strength, analysisArg, pass, polished,
                   outer, optPasses>>

\* if (analysis.passiveScore > 0.2) result = convertPassiveToActive(...)
\* Math.random() > intensity never holds for intensity 1
ConvertPassiveToActive ==
    /\ pc = "convertPassiveToActive"
    /\ IF RLt(<<1, 5>>, analysisArg.passiveScore)
       THEN /\ \E convert \in (IF strength = "aggressive" THEN {TRUE}
                               ELSE BOOLEAN) :
                   result' = convertPassiveToActive(result, convert)
            /\ trace' = Ran("convertPassiveToActive")
       ELSE UNCHANGED <<result, trace>>
    /\ pc' = "varySentenceStructure"
    /\ UNCHANGED <<text, analysis, tone, strength, analysisArg, pass, polished,
                   hits, outer, optPasses>>

\* if (analysis.sentenceVariety < 0.4) result = varySentenceStructure(...)
VarySentenceStructure ==
    /\ pc = "varySentenceStructure"
    /\ IF RLt(analysisArg.sentenceVariety, <<4, 25>>)
       THEN LET sentences == SentenceMatches(result)
                Options(i) == VaryOptions(sentences, i)
            IN  \E pick \in Picks(1..Len(sentences),
                                     [x \in 1..Len(sentences) |-> Options(x)], hits) :
                    /\ result' = varySentenceStructure(result, pick)
                    /\ hits' = hits - Cardinality(DOMAIN pick)
                    /\ trace' = Ran("varySentenceStructure")
       ELSE UNCHANGED <<result, hits, trace>>
    /\ pc' = "addContractions"
    /\ UNCHANGED <<text, analysis, tone, strength, analysisArg, pass, polished,
                   outer, optPasses>>

\* if (analysis.contractionScore < 0.2) result = addContractions(...)
\* Math.random() < intensity always holds for intensity 1
AddContractions ==
    /\ pc = "addContractions"
    /\ IF RLt(analysisArg.contractionScore, <<1, 5>>)
       THEN /\ \E applied \in (IF strength = "aggressive"
                               THEN { ContractionSites(result) }
                               ELSE SUBSET ContractionSites(result)) :
                   result' = addContractions(result, applied)
            /\ trace' = Ran("addContractions")
       ELSE UNCHANGED <<result, trace>>
    /\ pc' = "removeRoboticTransitions"
    /\ UNCHANGED <<text, analysis, tone, strength, analysisArg, pass, polished,
                   hits, outer, optPasses>>

\* variant: the call of applyToneTransformations left out
RemoveRoboticTransitionsSkipsTone ==
    /\ pc = "removeRoboticTransitions"
    /\ result' = removeRoboticTransitions(result)
    /\ trace' = Ran("removeRoboticTransitions")
    /\ pc' = "addNaturalFlow"
    /\ UNCHANGED <<text, analysis, tone, strength, analysisArg, pass, polished,
                   hits, outer, optPasses>>

\* result = removeRoboticTransitions(result)
RemoveRoboticTransitions ==
    /\ pc = "removeRoboticTransitions"
    /\ result' = removeRoboticTransitions(result)
    /\ trace' = Ran("removeRoboticTransitions")
    /\ pc' = "applyToneTransformations"
    /\ UNCHANGED <<text, analysis, tone, strength, analysisArg, pass, polished,
                   hits, outer, optPasses>>

\* result = applyToneTransformations(result, tone, strength)
ApplyToneTransformations ==
    /\ pc = "applyToneTransformations"
    /\ LET Markers(i) == Range(ToneMarkers(tone))
           sites == IF ToneMarkers(tone) = <<>> THEN {}
                    ELSE 1..Len(SentenceMatches(result))
       IN  \E pick \in Picks(sites, [x \in sites |-> Markers(x)], hits) :
               /\ result' = applyToneTransformations(result, tone, pick)
               /\ hits' = hits - Cardinality(DOMAIN pick)
    /\ trace' = Ran("applyToneTransformations")
    /\ pc' = "addNaturalFlow"
    /\ UNCHANGED <<text, analysis, tone, strength, analysisArg, pass, polished,
                   outer, optPasses>>

\* result = addNaturalFlow(result, tone, strength)
AddNaturalFlow ==
    /\ pc = "addNaturalFlow"
    /\ LET Emphasis(i) ==        \* emphasisWords[tone] || emphasisWords.casual
               Range(IF tone \in DOMAIN emphasisWords THEN emphasisWords[tone]
                     ELSE emphasisWords["casual"])
       IN  \E pick \in Picks(FlowSites(result),
                                [x \in FlowSites(result) |-> Emphasis(x)], hits) :
               /\ result' = addNaturalFlow(result, pick)
               /\ hits' = hits - Cardinality(DOMAIN pick)
    /\ trace' = Ran("addNaturalFlow")
    /\ pc' = "injectPersonality"
    /\ UNCHANGED <<text, analysis, tone, strength, analysisArg, pass, polished,
                   outer, optPasses>>

\* if (strength === 'aggressive') result = injectPersonality(result, tone)
\* and the end of the loop body: pass++, pass < passes
InjectPersonality ==
    /\ pc = "injectPersonality"
    /\ IF strength = "aggressive"
       THEN LET sentences == SentenceMatches(result)
                Touches(i) ==  \* personalTouches[tone] || personalTouches.casual
                    Range(IF tone \in DOMAIN personalTouches
                          THEN personalTouches[tone]
                          ELSE personalTouches["casual"])
                sites == IF Len(sentences) > 2 THEN 1..Len(sentences) ELSE {}
            IN  \E pick \in Picks(sites, [x \in sites |-> Touches(x)],
                                     IF hits > 0 THEN 1 ELSE 0) :
                    /\ result' = injectPersonality(result, pick)
                    /\ hits' = hits - Cardinality(DOMAIN pick)
                    /\ trace' = Ran("injectPersonality")
       ELSE UNCHANGED <<result, hits, trace>>
    /\ pass' = pass + 1
    /\ pc' = IF pass + 1 < Passes(strength) THEN "reduceFormality"
             ELSE "finalPolish"
    /\ UNCHANGED <<text, analysis, tone, strength, analysisArg, polished,
                   outer, optPasses>>

\* variant: finalPolish applied to its own output before the return
FinalPolishTwice ==
    /\ pc = "finalPolish"
    /\ result' = finalPolish(finalPolish(result))
    /\ trace' = Append(Ran("finalPolish"),
                       [call |-> outer, pass |-> pass, stage |-> "finalPolish"])
    /\ pc' = "done"
    /\ UNCHANGED <<text, analysis, tone, strength, analysisArg, pass, polished,
                   hits, outer, optPasses>>

\* result = finalPolish(result); return result
FinalPolish ==
    /\ pc = "finalPolish"
    /\ result' = finalPolish(result)
    /\ trace' = Ran("finalPolish")
    /\ pc' = "done"
    /\ UNCHANGED <<text, analysis, tone, strength, analysisArg, pass, polished,
                   hits, outer, optPasses>>

Next ==
    \/ Analyze
    \/ Call
    \/ CallReadme
    \/ ReduceFormality
    \/ ReduceRepetition
    \/ ConvertPassiveToActive
    \/ VarySentenceStructure
    \/ AddContractions
    \/ RemoveRoboticTransitions
    \/ ApplyToneTransformations
    \/ AddNaturalFlow
    \/ InjectPersonality
    \/ FinalPolish

Spec == Init /\ [][Next]_vars

----------------------------------------------------------------------------
(* One run of the command line: processText, which analyzes the text once  *)
(* and calls applyHumanization options.passes times on its own output.     *)

\* the successful draws of one command-line run are at most MaxRunHits
MaxRunHits == 0

InitRun ==
    /\ text \in { " ", "Utilize it. It is tested by them. ",
                  "It is good. A b c. " }
    /\ analysis = Undefined
    /\ tone = NotCalled
    /\ strength = NotCalled
    /\ analysisArg = Undefined
    /\ result = ""
    /\ pc = "start"
    /\ pass = 0
    /\ polished = ""
    /\ hits = MaxRunHits
    /\ outer = 0
    /\ optPasses = 0
    /\ trace = <<>>

\* processText(text, options) up to its first call of applyHumanization:
\* process.exit(1) for a blank text, else the analysis and
\* result = applyHumanization(result, options.tone, options.strength, analysis)
\* with i = 1; options.passes is between 1 and 5
ProcessText ==
    /\ pc = "start"
    /\ IF Trim(text) = ""
       THEN /\ pc' = "exited"
            /\ UNCHANGED <<analysis, tone, strength, analysisArg, result,
                           outer, optPasses>>
       ELSE /\ analysis' = analyzeAIPatterns(text)
            /\ tone' \in Tones
            /\ strength' \in Strengths
            /\ optPasses' \in 1..5
            /\ outer' = 1
            /\ analysisArg' = analysis'
            /\ result' = text
            /\ pc' = "reduceFormality"
    /\ UNCHANGED <<text, pass, polished, hits, trace>>

\* variant: the text is analyzed again before each further call
NextPassReanalyzes ==
    /\ pc = "done"
    /\ outer > 0
    /\ outer < optPasses
    /\ outer' = outer + 1
    /\ analysisArg' = analyzeAIPatterns(result)
    /\ pass' = 0
    /\ pc' = "reduceFormality"
    /\ UNCHANGED <<text, analysis, tone, strength, result, polished, hits,
                   optPasses, trace>>

\* i++, i <= options.passes, and the next
\* result = applyHumanization(result, options.tone, options.strength, analysis)
NextPass ==
    /\ pc = "done"
    /\ outer > 0
    /\ outer < optPasses
    /\ outer' = outer + 1
    /\ analysisArg' = analysis
    /\ pass' = 0
    /\ pc' = "reduceFormality"
    /\ UNCHANGED <<text, analysis, tone, strength, result, polished, hits,
                   optPasses, trace>>

NextRun ==
    \/ ProcessText
    \/ NextPass
    \/ ReduceFormality
    \/ ReduceRepetition
    \/ ConvertPassiveToActive
    \/ VarySentenceStructure
    \/ AddContractions
    \/ RemoveRoboticTransitions
    \/ ApplyToneTransformations
    \/ AddNaturalFlow
    \/ InjectPersonality
    \/ FinalPolish

SpecRun == InitRun /\ [][NextRun]_vars

----------------------------------------------------------------------------
(* Properties of the analyzer.                                             *)

\* v >= r for a surd v and a rational r
AtLeast(v, r) == SurdSignGe0(RSub(v.c, r), v.k, v.q)

\* the text has no character other than white space and '.', '!', '?':
\* it is empty, blank, or yields no sentence or no word
Degenerate(t) ==
    \A i \in 1..Len(t) : Char(t, i) \in SpaceChars \cup Terminators

InUnit(r) == RLe(Zero, r) /\ RLe(r, One)

HasPattern(a, entry) == \E i \in 1..Len(a.aiPatterns) : a.aiPatterns[i] = entry

\* C1: for a text that is empty, blank or without sentences or words after
\* filtering, analyze returns all scores and passiveCount 0 and the single
\* pattern "Insufficient text for analysis".
C1_InsufficientRecord ==
    (pc = "analyzed" /\ Degenerate(text)) =>
        /\ analysis.aiPatterns = <<"Insufficient text for analysis">>
        /\ analysis.formalityScore = Zero
        /\ analysis.repetitionScore = Zero
        /\ analysis.passiveScore = Zero
        /\ analysis.sentenceVariety = Zero
        /\ analysis.starterScore = Zero
        /\ analysis.contractionScore = Zero
        /\ analysis.vocabDiversity = Zero
        /\ analysis.overallAIScore = Surd(Zero, Zero, Zero)
        /\ analysis.passiveCount = 0

\* a text of punctuation only (one word, no sentence) has been analyzed
C1_Witness ==
    /\ pc = "analyzed"
    /\ Degenerate(text)
    /\ \E i \in 1..Len(text) : Char(text, i) \in Terminators
    /\ analysis.aiPatterns = <<"Insufficient text for analysis">>

\* C2: for a non-degenerate text, 0 <= overallAIScore <= 1.
C2_OverallInUnit ==
    (pc = "analyzed" /\ ~Degenerate(text)) =>
        /\ AtLeast(analysis.overallAIScore, Zero)
        /\ SurdLe(analysis.overallAIScore, One)

\* a text with sentences of different lengths and a formal word has been scored
C2_Witness ==
    /\ pc = "analyzed"
    /\ ~Degenerate(text)
    /\ analysis.sentenceVariety # Zero
    /\ analysis.formalityScore # Zero
    /\ AtLeast(analysis.overallAIScore, <<1, 4>>)

\* C3: formalityScore, repetitionScore, passiveScore, sentenceVariety,
\* starterScore and vocabDiversity lie in [0,1] for every text
\* (sentenceVariety is in [0,1] exactly when its square is); contractionScore
\* is not bounded by 1 (the witness is a text where it exceeds 1).
C3_ComponentsInUnit ==
    pc = "analyzed" =>
        /\ InUnit(analysis.formalityScore)
        /\ InUnit(analysis.repetitionScore)
        /\ InUnit(analysis.passiveScore)
        /\ InUnit(analysis.sentenceVariety)
        /\ InUnit(analysis.starterScore)
        /\ InUnit(analysis.vocabDiversity)

\* contractionScore exceeds 1 on a text with repeated words
C3_Witness ==
    /\ pc = "analyzed"
    /\ RLt(One, analysis.contractionScore)
    /\ RLt(Zero, analysis.repetitionScore)

\* the composite score as the specification states it, from the returned scores
StatedOverall(a) ==
    LET lackOfContractions ==
            IF RLt(a.contractionScore, <<1, 10>>) THEN <<4, 5>> ELSE Zero
        lowDiversityFlag ==
            IF RLt(a.vocabDiversity, <<1, 2>>) THEN <<3, 5>> ELSE Zero
        c == RAdd(RMul(<<20, 100>>, a.formalityScore),
             RAdd(RMul(<<15, 100>>, a.repetitionScore),
             RAdd(RMul(<<15, 100>>, a.passiveScore),
             RAdd(<<15, 100>>,
             RAdd(RMul(<<10, 100>>, a.starterScore),
             RAdd(RMul(<<10, 100>>, lackOfContractions),
             RAdd(RMul(<<10, 100>>, a.transitionScore),
                  RMul(<<5, 100>>, lowDiversityFlag))))))))
        sum == Surd(c, Rat(-15, 100), a.sentenceVariety)
    IN  SurdMin(IF AtLeast(sum, Zero) THEN sum ELSE Surd(Zero, Zero, Zero), One)

\* C9: for a non-degenerate text, overallAIScore = min(1, max(0, 0.20 formality
\* + 0.15 repetition + 0.15 passive + 0.15 (1 - variety) + 0.10 starter
\* + 0.10 lackOfContractions + 0.10 transition + 0.05 lowDiversityFlag));
\* no other signal enters the score.
C9_OverallFormula ==
    (pc = "analyzed" /\ ~Degenerate(text)) =>
        analysis.overallAIScore = StatedOverall(analysis)

\* scored: few contractions, sentences of different lengths and consistent
\* paragraphs (a signal outside the formula)
C9_Witness ==
    /\ pc = "analyzed"
    /\ ~Degenerate(text)
    /\ RLt(analysis.contractionScore, <<1, 10>>)
    /\ analysis.sentenceVariety # Zero
    /\ HasPattern(analysis, "Suspiciously consistent paragraph lengths")

\* the text has the word w (a white-space delimited token, lower-cased)
ContainsWord(t, w) == \E i \in 1..Len(Words(t)) : Words(t)[i] = w

\* formalCount / wordCount * 5
FormalDensity(t) == Rat(5 * FormalCount(Words(t)), Len(Words(t)))

\* C10 as stated: a text with the word "utilize" and formalCount / wordCount * 5
\* >= 0.15 has an entry "High formality level detected".
C10_Original ==
    (/\ pc = "analyzed"
     /\ ContainsWord(text, "utilize")
     /\ RLe(<<15, 100>>, FormalDensity(text)))
        => HasPattern(analysis, "High formality level detected")

\* C10: a text with the word "utilize" and formalCount / wordCount * 5
\* strictly above 0.15 has an entry "High formality level detected".
C10_HighFormalityAbove ==
    (/\ pc = "analyzed"
     /\ ContainsWord(text, "utilize")
     /\ RLt(<<15, 100>>, FormalDensity(text)))
        => HasPattern(analysis, "High formality level detected")

\* a text just above the threshold (density in (0.15, 0.25]) has the entry
C10_Witness ==
    /\ pc = "analyzed"
    /\ ContainsWord(text, "utilize")
    /\ RLt(<<15, 100>>, FormalDensity(text))
    /\ RLe(FormalDensity(text), <<25, 100>>)
    /\ HasPattern(analysis, "High formality level detected")

----------------------------------------------------------------------------
(* Properties of the pipeline.                                             *)

informalWords == {"kinda", "gonna", "wanna", "yeah", "nope"}

\* one of the informal words occurs in t as a substring, whatever its case
HasInformalSubstring(t) ==
    \E w \in informalWords : Includes(ToLowerCase(t), w)

\* one of the informal words occurs in t as a whole word (between two \b),
\* whatever its case
HasInformalWord(t) ==
    LET low == ToLowerCase(t)
    IN  \E w \in informalWords : \E i \in 1..Len(t) : WordEnd(low, i, w) > 0

C6_Idempotent == pc = "repolished" => polished = result

\* C7 as stated: for every input text, valid tone and strength and the
\* analysis of the text, no stage throws: applyHumanization called with its
\* four arguments never raises an error.
C7_NeverThrows == strength \in Strengths => pc # "threw"

\* C8 as stated: the call the README documents, applyHumanization(text, tone,
\* analysis) with three arguments, returns a string and raises no error.
C8_ReadmeCallReturns == strength = ObjectArg => pc # "threw"

----------------------------------------------------------------------------
(* Properties of the pattern list.                                         *)

\* passive-pattern matches over sentence count, from the returned record
PassiveRatio(a) ==
    Rat(a.passiveCount,
        IF a.detailedMetrics.totalSentences > 1
        THEN a.detailedMetrics.totalSentences ELSE 1)

\* C11: the pattern list has the entry "Excessive passive voice" exactly when
\* the ratio of passive-pattern matches to sentence count is greater than 0.25.
C11_ExcessivePassive ==
    pc = "analyzed" =>
        (HasPattern(analysis, "Excessive passive voice")
            <=> RLt(<<1, 4>>, PassiveRatio(analysis)))

\* a text with fewer passive matches than sentences, but more than a quarter,
\* has been analyzed and has the entry
C11_Witness ==
    /\ pc = "analyzed"
    /\ RLt(<<1, 4>>, PassiveRatio(analysis))
    /\ RLt(PassiveRatio(analysis), One)
    /\ HasPattern(analysis, "Excessive passive voice")

\* all sentences of t have the same number of words
UniformLengths(t) ==
    LET lens == SentenceLengths(Sentences(t))
    IN  \A m, n \in 1..Len(lens) : lens[m] = lens[n]

\* sentenceVariety < 0.35, on the square the record carries
VarietyBelow(a) == RLt(a.sentenceVariety, <<49, 400>>)

\* C12 as stated: for every text, equal sentence lengths give sentenceVariety 0
\* and the entry "Uniform sentence lengths", and the entry is present exactly
\* when sentenceVariety < 0.35.
C12_Original ==
    pc = "analyzed" =>
        /\ UniformLengths(text) =>
               /\ analysis.sentenceVariety = Zero
               /\ HasPattern(analysis, "Uniform sentence lengths")
        /\ HasPattern(analysis, "Uniform sentence lengths")
               <=> VarietyBelow(analysis)

\* C12: for every text with at least one word and one sentence, equal
\* sentence lengths give sentenceVariety 0 and the entry "Uniform sentence
\* lengths", and the entry is present exactly when sentenceVariety < 0.35.
C12_UniformSentences ==
    (pc = "analyzed" /\ ~IsInsufficient(Words(text), Sentences(text))) =>
        /\ UniformLengths(text) =>
               /\ analysis.sentenceVariety = Zero
               /\ HasPattern(analysis, "Uniform sentence lengths")
        /\ HasPattern(analysis, "Uniform sentence lengths")
               <=> VarietyBelow(analysis)

\* a text of two or more sentences of the same length, of two or more words
\* each, has been analyzed and has the entry
C12_Witness ==
    /\ pc = "analyzed"
    /\ Len(Sentences(text)) > 1
    /\ UniformLengths(text)
    /\ SentenceLengths(Sentences(text))[1] > 1
    /\ analysis.sentenceVariety = Zero
    /\ HasPattern(analysis, "Uniform sentence lengths")

----------------------------------------------------------------------------
(* Properties of finalPolish.                                              *)

\* C17: the output of finalPolish has no two consecutive '.', no two
\* consecutive '?' and no two consecutive '!'.
C17_NoRepeatedTerminator ==
    pc = "polished" =>
        \A c \in Terminators : ~Includes(result, c \o c)

\* position of the first character of t that is not white space, or 0
FirstNonSpace(t) ==
    LET e == SkipChars(t, 1, SpaceChars)
    IN  IF e <= Len(t) THEN e ELSE 0

\* C18: for a text whose first character other than white space is a letter,
\* the output of finalPolish starts with that letter in upper case.
C18_FirstLetterUpper ==
    (/\ pc = "polished"
     /\ FirstNonSpace(text) > 0
     /\ Char(text, FirstNonSpace(text)) \in LowerLetters \cup UpperLetters) =>
        /\ result # ""
        /\ Char(result, 1) = UpperChar(Char(text, FirstNonSpace(text)))

\* a lower-case letter stands at j of t, after a '.', '!' or '?' and the
\* white space that follows it
LowerStartsSentence(t, j) ==
    /\ Char(t, j) \in LowerLetters
    /\ \E i \in 1..(j - 2) :
           /\ Char(t, i) \in Terminators
           /\ \A k \in (i + 1)..(j - 1) : Char(t, k) \in SpaceChars

\* C19: in the output of finalPolish no lower-case letter follows a '.', '!'
\* or '?' and the white space after it.
C19_SentencesCapitalized ==
    pc = "polished" => \A j \in 1..Len(result) : ~LowerStartsSentence(result, j)

\* finalPolish has capitalized a lower-case letter that followed a '?' or '!'
\* of its input
C19_Witness ==
    /\ pc = "polished"
    /\ \E j \in 1..Len(text) : LowerStartsSentence(text, j)
    /\ \E j \in 3..Len(result) :
           /\ Char(result, j) \in UpperLetters
           /\ Char(result, j - 1) = " "
           /\ Char(result, j - 2) \in {"?", "!"}

----------------------------------------------------------------------------
(* Properties of the order of the stages.                                  *)

\* the stated number of inner passes of one call
Multiplier(st) ==
    CASE st = "aggressive" -> 3
      [] st = "medium" -> 2
      [] OTHER -> 1

\* the stated order of the stages of one inner pass
StageOrder ==
    << "reduceFormality", "reduceRepetition", "convertPassiveToActive",
       "varySentenceStructure", "addContractions", "removeRoboticTransitions",
       "applyToneTransformations", "addNaturalFlow", "injectPersonality" >>

\* the place of a stage in the stated order, finalPolish after all of them
StageIndex(stage) ==
    IF stage = "finalPolish" THEN Len(StageOrder) + 1
    ELSE CHOOSE k \in 1..Len(StageOrder) : StageOrder[k] = stage

\* the stated condition under which a stage runs, a the analysis record
StageRuns(a, st, stage) ==
    CASE stage = "reduceFormality"        -> RLt(<<1, 10>>, a.formalityScore)
      [] stage = "reduceRepetition"       -> RLt(<<1, 20>>, a.repetitionScore)
      [] stage = "convertPassiveToActive" -> RLt(<<1, 5>>, a.passiveScore)
      [] stage = "varySentenceStructure"  -> RLt(a.sentenceVariety, <<4, 25>>)
      [] stage = "addContractions"        -> RLt(a.contractionScore, <<1, 5>>)
      [] stage = "injectPersonality"      -> st = "aggressive"
      [] OTHER -> TRUE

\* the stages that the stated conditions let run
StagesDue(a, st) == { s \in Range(StageOrder) : StageRuns(a, st, s) }

\* the stages applied in inner pass p of call c
StagesRun(c, p) ==
    { trace[n].stage : n \in { m \in 1..Len(trace) :
                                  trace[m].call = c /\ trace[m].pass = p } }

\* the inner passes that are complete: <<call, pass>>
CompletePasses ==
    { <<outer, p>> : p \in 0..(pass - 1) }
        \cup { <<c, p>> : c \in 1..(outer - 1), p \in 0..(Multiplier(strength) - 1) }

\* C13: in a call of applyHumanization finalPolish is applied at most once, no
\* stage is applied after it, it directly follows a stage of the last inner
\* pass, and a call that has returned has applied it.
C13_PolishOnceAtEnd ==
    /\ \A m, n \in 1..Len(trace) :
          (m < n /\ trace[m].stage = "finalPolish")
              => trace[n].call # trace[m].call
    /\ \A n \in 1..Len(trace) :
          trace[n].stage = "finalPolish" =>
              /\ n > 1
              /\ trace[n - 1].call = trace[n].call
              /\ trace[n - 1].stage # "finalPolish"
              /\ trace[n - 1].pass = Multiplier(strength) - 1
    /\ pc = "done" =>
          /\ trace # <<>>
          /\ trace[Len(trace)].stage = "finalPolish"
          /\ trace[Len(trace)].call = outer

\* an aggressive call has returned: three inner passes, then finalPolish
C13_Witness ==
    /\ pc = "done"
    /\ strength = "aggressive"
    /\ trace[Len(trace)].stage = "finalPolish"
    /\ \A p \in 0..2 : "injectPersonality" \in StagesRun(outer, p)
    /\ Cardinality({ n \in 1..Len(trace) : trace[n].stage = "finalPolish" }) = 1

\* processText has returned from its last call of applyHumanization
RunReturned == pc = "done" /\ outer > 0 /\ outer = optPasses

\* the inner passes made so far, over all calls
Traversals ==
    Cardinality({ <<trace[n].call, trace[n].pass>> :
                    n \in { m \in 1..Len(trace) :
                              trace[m].stage # "finalPolish" } })

C15_StageOrder ==
    /\ \A m, n \in 1..Len(trace) :
          (m < n /\ trace[m].call = trace[n].call) =>
              \/ trace[m].pass < trace[n].pass
              \/ /\ trace[m].pass = trace[n].pass
                 /\ StageIndex(trace[m].stage) < StageIndex(trace[n].stage)
    /\ \A p \in 0..(pass - 1) :
          StagesRun(outer, p) = StagesDue(analysisArg, strength)

\* a call of strength medium has returned: in both inner passes a gated stage
\* ran, another gated stage did not, and personality injection did not
C15_Witness ==
    /\ pc = "done"
    /\ strength = "medium"
    /\ \A p \in 0..1 :
          /\ "reduceFormality" \in StagesRun(outer, p)
          /\ "convertPassiveToActive" \in StagesRun(outer, p)
          /\ "reduceRepetition" \notin StagesRun(outer, p)
          /\ "injectPersonality" \notin StagesRun(outer, p)

\* C16: every call of a command-line run receives the analysis of the
\* original input, and every complete inner pass of every call runs the same
\* stages, those that this analysis lets run.
C16_GatesOfOriginal ==
    outer > 0 =>
        /\ analysis = analyzeAIPatterns(text)
        /\ analysisArg = analysis
        /\ \A cp \in CompletePasses :
              StagesRun(cp[1], cp[2]) = StagesDue(analysis, strength)

\* a second or later call has returned; the stages it ran are those of the
\* original analysis, and an analysis of its output would let other stages run
C16_Witness ==
    /\ pc = "done"
    /\ outer > 1
    /\ result # text
    /\ StagesRun(outer, 0) = StagesDue(analysis, strength)
    /\ StagesDue(analyzeAIPatterns(result), strength)
           # StagesDue(analysis, strength)

----------------------------------------------------------------------------
(* Properties of varySentenceStructure.                                    *)

\* the sentences of t as varySentenceStructure takes them
TrimmedSentences(t) ==
    LET sentences == SentenceMatches(t)
    IN  [n \in 1..Len(sentences) |-> Trim(sentences[n])]

\* C20: when varySentenceStructure merges sentence i with the one before it,
\* the merged sentence takes the place of both: the output is the sentences
\* before them, the merged sentence, and the sentences after them.  (The
\* first inner pass of a call whose earlier stages did not run: the stage has
\* received the input text.)
C20_MergeReplaces ==
    (/\ pc = "addContractions"
     /\ pass = 0
     /\ Len(trace) = 1
     /\ trace[1].stage = "varySentenceStructure") =>
        LET s == TrimmedSentences(text)
        IN  \A i \in 2..Len(s) : \A c \in 1..Len(connectors) :
                LET merged == combineSentences(s[i - 1], s[i], connectors[c])
                IN  Includes(result, merged) =>
                        result = Join(SubSeq(s, 1, i - 2) \o <<merged>>
                                          \o SubSeq(s, i + 1, Len(s)), " ")

----------------------------------------------------------------------------
(* The perfect-structure entry and the starter score.                      *)

AllLong(t) ==
    LET s == Sentences(t)
    IN  \A i \in 1..Len(s) : Len(Tokens(s[i], SpaceChars)) > 15

AllCommas(t) ==
    LET s == Sentences(t)
    IN  \A i \in 1..Len(s) : Includes(s[i], ",")

\* C23 as stated: for every non-degenerate text the entry "Unnaturally
\* perfect sentence structure" is present exactly when every sentence has
\* more than 15 words and every sentence contains a comma, for any number
\* of sentences.
C23_Original ==
    (pc = "analyzed" /\ ~IsInsufficient(Words(text), Sentences(text))) =>
        (HasPattern(analysis, "Unnaturally perfect sentence structure")
             <=> (AllLong(text) /\ AllCommas(text)))

\* C23: for every non-degenerate text the entry "Unnaturally perfect
\* sentence structure" is present exactly when the text has more than three
\* sentences and either every sentence has more than 15 words or every
\* sentence contains a comma.
C23_PerfectStructure ==
    (pc = "analyzed" /\ ~IsInsufficient(Words(text), Sentences(text))) =>
        (HasPattern(analysis, "Unnaturally perfect sentence structure")
             <=> (/\ Len(Sentences(text)) > 3
                  /\ (AllLong(text) \/ AllCommas(text))))

\* four or more sentences, all longer than 15 words, one of them without a
\* comma, have been analyzed and have the entry
C23_Witness ==
    /\ pc = "analyzed"
    /\ Len(Sentences(text)) > 3
    /\ AllLong(text)
    /\ ~AllCommas(text)
    /\ HasPattern(analysis, "Unnaturally perfect sentence structure")

\* the first words of the sentences of t, lower-cased
StartersOf(t) ==
    LET s == Sentences(t)
    IN  [n \in 1..Len(s) |-> ToLowerCase(Tokens(s[n], SpaceChars)[1])]

\* the sentences of t whose first word starts more than two sentences
RepeatedStarterSentences(t) ==
    LET st == StartersOf(t)
    IN  { n \in 1..Len(st) : Freq(st, st[n]) > 2 }

\* C26: starterScore is the unclamped ratio of the distinct starters used
\* more than twice to the sentence count and never exceeds 1/3, and the
\* entry "Repetitive sentence starters detected" is present only when the
\* sentences with such a starter are more than nine tenths of all.
C26_StarterScoreBound ==
    pc = "analyzed" =>
        LET st       == StartersOf(text)
            repeated == RepeatedStarterSentences(text)
        IN  /\ RLe(analysis.starterScore, <<1, 3>>)
            /\ Len(st) > 0 =>
                   analysis.starterScore =
                       Rat(Cardinality({ st[n] : n \in repeated }), Len(st))
            /\ HasPattern(analysis, "Repetitive sentence starters detected")
                   => 10 * Cardinality(repeated) > 9 * Len(st)

\* six sentences with two starters used three times each have been analyzed:
\* the score is 1/3 and the entry is present
C26_Witness ==
    /\ pc = "analyzed"
    /\ Len(Sentences(text)) = 6
    /\ analysis.starterScore = <<1, 3>>
    /\ HasPattern(analysis, "Repetitive sentence starters detected")

----------------------------------------------------------------------------
(* The robotic transitions in the returned text.                           *)

\* C21: the text returned by applyHumanization contains, case-insensitively,
\* none of the 15 phrases that removeRoboticTransitions replaces, also when
\* the input has white space between the word and its comma.
C21_NoRoboticPhrase ==
    pc = "done" =>
        \A n \in 1..Len(removals) :
            ~Includes(ToLowerCase(result), removals[n][1])

----------------------------------------------------------------------------
(* What reduceRepetition changes.                                          *)

\* what the statement allows token i of `tokens` to become: the token itself,
\* or, for a third or later occurrence of a key of the table, one of the
\* key's synonyms, capitalized exactly when the token is
AllowedTokens(tokens, i) ==
    LET lowerWord == ToLowerCase(tokens[i])
        earlier == { j \in 1..(i - 1) : ToLowerCase(tokens[j]) = lowerWord }
    IN  {tokens[i]} \cup
        (IF lowerWord \in DOMAIN synonymMap /\ Cardinality(earlier) >= 2
         THEN { IF Char(tokens[i], 1) \in UpperLetters
                THEN UpperFirst(synonymMap[lowerWord][k])
                ELSE synonymMap[lowerWord][k] :
                k \in 1..Len(synonymMap[lowerWord]) }
         ELSE {})

\* the texts the statement allows for the tokens from i on
RECURSIVE AllowedOutputs(_, _)
AllowedOutputs(tokens, i) ==
    IF i > Len(tokens) THEN {""}
    ELSE { a \o rest : a \in AllowedTokens(tokens, i),
                       rest \in AllowedOutputs(tokens, i + 1) }

\* C22: when reduceRepetition returns, every token of its input (words and
\* white space, text.split(/(\s+)/)) is unchanged, except that a third or
\* later case-insensitive occurrence of a key of the 14-entry synonym table
\* may be replaced by one of that key's synonyms, with its first letter in
\* upper case exactly when the token's first letter is.
C22_OnlyTableWords ==
    [][(/\ pc = "reduceRepetition"
        /\ pc' = "convertPassiveToActive"
        /\ trace' # trace) =>
           result' \in AllowedOutputs(SplitCapture(result), 1)]_vars

----------------------------------------------------------------------------
(* What the sentence-based stages keep of their input.                     *)

\* the words of t in lower case: the pieces between white space, punctuation
\* and dashes
WordsIn(t) ==
    Range(Tokens(ToLowerCase(t), SpaceChars \cup Punctuation \cup {"-"}))

\* the words of t, a contracted pair ("it's") counted as the words it
\* stands for ("it", "is")
WordsKeptIn(t) ==
    WordsIn(t) \cup
    UNION { WordsIn(contractions[n][1]) :
              n \in { m \in 1..Len(contractions) :
                        Includes(ToLowerCase(t),
                                 ToLowerCase(contractions[m][2])) } }

\* the step applies a stage that rebuilds the text from its sentences
SentenceStageRuns ==
    /\ Len(trace') = Len(trace) + 1
    /\ \/ trace'[Len(trace')].stage \in
              {"varySentenceStructure", "injectPersonality"}
       \/ /\ trace'[Len(trace')].stage = "applyToneTransformations"
          /\ tone \in {"casual", "academic", "creative"}

\* C24: the casual, academic and creative tone applications, the personality
\* injection and the sentence-structure variation delete no input text:
\* every word of the stage's input, a last fragment without terminal
\* punctuation and text before the first sentence included, is a word of
\* the stage's output (a pair the stage contracts is kept as its
\* contraction).
C24_NoWordDeleted ==
    [][SentenceStageRuns => WordsIn(result) \subseteq WordsKeptIn(result')]_vars

----------------------------------------------------------------------------
(* The formal terms in the returned text.                                  *)

\* the single-word formal terms reduceFormality replaces at strength st
FormalTerms(st) ==
    { r[1] : r \in { q \in Range(IF st = "aggressive"
                                 THEN baseReplacements \o aggressiveReplacements
                                 ELSE baseReplacements) :
                       ~Includes(q[1], " ") } }

\* t has w as a whole word (\b on both sides), compared case-insensitively
HasWholeWord(t, w) ==
    LET low == ToLowerCase(t)
    IN  \E i \in 1..Len(low) : WordEnd(low, i, w) > 0

\* C25: when analysis.formalityScore > 0.1, the text applyHumanization
\* returns has no whole-word occurrence, compared case-insensitively, of a
\* single-word formal term that reduceFormality replaces at the given
\* strength: no later stage, the synonyms of reduceRepetition included, puts
\* such a term back.
C25_NoFormalTermReturned ==
    (/\ pc = "done"
     /\ analysisArg # Undefined
     /\ RLt(<<1, 10>>, analysisArg.formalityScore)) =>
        \A w \in FormalTerms(strength) : ~HasWholeWord(result, w)

====
